---- MODULE Spec2Model ----
(***************************************************************************)
(* A model of the proposer-commitment network: the relay proxy              *)
(* (interstate-pbs-module), the gateway's commitment state machine          *)
(* (interstate-gateway) and the execution-layer preflight (sidecar).        *)
(* The three programs are separate processes; each has its own              *)
(* specification over its own variables.                                    *)
(***************************************************************************)
EXTENDS Integers, Sequences, FiniteSets, TLC

VARIABLES
    \* ---- relay proxy (interstate-pbs-module) ----
    cache,          \* ConstraintStore.cache: slot -> Vec<ConstraintsWithProofData> (<<>> = no entry)
    committed,      \* history: the set of messages the store accepted per slot, until pruned by slot
    beacon_head,    \* the beacon node's head slot, read by fetch_current_slot_number
    sub,            \* the submit_constraints handlers: position, current message
    gh,             \* the get_header_with_proofs handler: position, slot
    pbs_out,        \* the response produced by the last step (op = "none" when the step answered nothing)
    \* ---- gateway (interstate-gateway) ----
    latest_slot,          \* ConstraintState.latest_slot
    elapsed,              \* ticks since ConstraintState.latest_slot_timestamp, saturating past the deadline
    current_epoch,        \* ConstraintState.current_epoch: value, start_slot, epoch of the proposer_duties held
    blocks,               \* ConstraintState.blocks: slot -> signed_constraints_list (<<>> = no entry)
    commitment_deadline,  \* ConstraintState.commitment_deadline: slot, ticks left on its sleep, armed
                          \* (sleep is Some), fired: how often wait resolved with a slot since new
    tasks,                \* handlers spawned by the event loop that have not taken the state lock yet
    chain,                \* the chain the clients read: last head slot announced, basefee
    execution,            \* ConstraintState.execution: slot, basefee, account_states
    gw_out,               \* what the last handler did (op = "none" when no handler ran)
    requests,             \* the requests the event loop received, in that order, each with whether
                          \* its spawned handler has taken the state lock yet
    active,               \* the request handler that holds the constraint_state lock between its
                          \* validation and its insertion (kind = "none": no such handler)
    \* ---- sidecar constraints proxy server (interstate-sidecar) ----
    fallback_payload,     \* ConstraintsAPIProxyServer.fallback_payload: Option<GetPayloadResponse>
    fallback_bid,         \* ConstraintsAPIProxyServer.fallback_bid: Option<SignedBuilderBid>
    sc_out,               \* what the last proxy handler answered (op = "none" before any request)
    \* ---- commitment RPC server ----
    channel,              \* the bounded mpsc channel from the RPC handlers to the event loop
    rpc_out,              \* what the last RPC handler answered
    \* ---- fallback block builder ----
    builder,              \* BlockBuilder::build_sealed_block: its position, i, hints, engine calls made
    \* ---- beacon header fetch of update_head ----
    fetch,                \* get_beacon_header_with_retry: its position, locals, sleeps and result
    \* ---- scored cache ----
    map,                  \* ScoreCache.map: per key, whether it is held and with what score
    \* ---- timing games of send_timed_get_header ----
    tg,                   \* send_timed_get_header: its position, budget, spawned requests, result
    \* ---- event loop of main and the mutexes ----
    rt,                   \* the event loop, the handlers it spawned, who holds and who waits for each mutex, pending events
    \* ---- fallback builder of the gateway ----
    payload_and_bid       \* FallbackBuilder.payload_and_bid: the payload and bid built last, with the slot and the template they were built for

pbs_vars == <<cache, committed, beacon_head, sub, gh, pbs_out>>

gw_vars == <<latest_slot, elapsed, current_epoch, blocks, commitment_deadline, tasks, chain,
             execution, gw_out>>

ev_vars == <<requests, active>>

sc_vars == <<fallback_payload, fallback_bid, sc_out>>

rpc_vars == <<channel, rpc_out>>

\* the variables of the components that stand beside the relay proxy, the
\* gateway's state and the sidecar proxy
aux_vars == <<rpc_vars, builder, fetch, map, tg, rt, payload_and_bid>>

\* what stands beside each of these components
beside_rpc == <<builder, fetch, map, tg, rt, payload_and_bid>>
beside_builder == <<rpc_vars, fetch, map, tg, rt, payload_and_bid>>
beside_fetch == <<rpc_vars, builder, map, tg, rt, payload_and_bid>>
beside_map == <<rpc_vars, builder, fetch, tg, rt, payload_and_bid>>
beside_tg == <<rpc_vars, builder, fetch, map, rt, payload_and_bid>>
beside_rt == <<rpc_vars, builder, fetch, map, tg, payload_and_bid>>
beside_payload_and_bid == <<rpc_vars, builder, fetch, map, tg, rt>>

core_vars == <<pbs_vars, gw_vars, ev_vars, sc_vars>>

vars == <<cache, committed, beacon_head, sub, gh, pbs_out,
          latest_slot, elapsed, current_epoch, blocks, commitment_deadline, tasks, chain,
          execution, gw_out, requests, active, fallback_payload, fallback_bid, sc_out,
          channel, rpc_out, builder, fetch, map, tg, rt, payload_and_bid>>

\* ------------------------------------------------------------------------
\* Small helpers
\* ------------------------------------------------------------------------
RECURSIVE SumSeq(_)
SumSeq(s) == IF s = <<>> THEN 0 ELSE Head(s) + SumSeq(Tail(s))

RECURSIVE FlatMap(_)
FlatMap(ss) == IF ss = <<>> THEN <<>> ELSE Head(ss) \o FlatMap(Tail(ss))

Range(s) == {s[i] : i \in 1..Len(s)}

\* ========================================================================
\* RELAY PROXY: constraints store and get_header_with_proofs
\* ========================================================================
PER_SLOT_MAX_CONSTRAINTS == 128
EPOCH_SLOTS == 32

MaxBidValue == 2       \* relay bids carry a value in 1..MaxBidValue
MaxBeaconHead == 3     \* the beacon head moves over 1..MaxBeaconHead

\* Raw EIP-2718 transaction bytes.  "t3_sidecar" and "t3_bare" are the two
\* encodings of ONE type-3 transaction (with and without its blob sidecar);
\* "empty" is the empty byte string.
RawTxs == {"t2", "t3_sidecar", "t3_bare", "empty"}
TxHashes == {"h2", "h3"}

\* the far slot lies beyond current_slot + 2 * EPOCH_SLOTS for every head of the model
FarSlot == MaxBeaconHead + 2 * EPOCH_SLOTS + 1
StoreSlots == {2}
ConstraintSlots == StoreSlots \cup {FarSlot}

Submitters == {"p1", "p2"}
RelayOrder == <<"r1", "r2">>
Relays == Range(RelayOrder)

\* ConstraintsWithProofData::try_from: the transaction hash of raw bytes.
\* A type-3 transaction hashes the envelope without the sidecar, so both
\* encodings give the same hash; empty bytes do not decode.
Decodes(raw) == raw # "empty"

TxHashOf(raw) ==
    CASE raw = "t2" -> "h2"
      [] raw = "t3_sidecar" -> "h3"
      [] raw = "t3_bare" -> "h3"
      [] raw = "empty" -> "undecodable"
      [] OTHER -> raw

ProofData(msg) == [i \in 1..Len(msg.transactions) |-> TxHashOf(msg.transactions[i])]

TryFromOk(msg) == \A i \in 1..Len(msg.transactions) : Decodes(msg.transactions[i])

\* the transaction lists of the constraints messages submitted
TxLists == {<<"t2">>, <<"t3_sidecar">>, <<"t3_bare">>, <<"empty">>, <<"t2", "t3_bare">>}

Messages == {[slot |-> s, transactions |-> t] : s \in ConstraintSlots, t \in TxLists}

\* a conflict check that looks at the first transaction of the message alone
check_conflicts_first_tx(c, slot, msg) ==
    \E i \in 1..Len(c[slot]) :
        \E k \in 1..Len(c[slot][i].transactions) :
            msg.transactions[1] = c[slot][i].transactions[k]

\* check_conflicts: a saved constraint holds a transaction EQUAL (as bytes)
\* to one of the new message.
check_conflicts(c, slot, msg) ==
    \E i \in 1..Len(c[slot]) :
        \E j \in 1..Len(msg.transactions) :
            \E k \in 1..Len(c[slot][i].transactions) :
                msg.transactions[j] = c[slot][i].transactions[k]

\* a limit that lets one more constraint in
limit_reached_late(cs) == cs # <<>> /\ Len(cs) > PER_SLOT_MAX_CONSTRAINTS

\* add_constraints under the write lock: the slot has an entry that is full
limit_reached(cs) == cs # <<>> /\ Len(cs) >= PER_SLOT_MAX_CONSTRAINTS

NoOut == [op |-> "none"]

\* stored: this call has saved a constraint of its batch
SubIdle == [pc |-> "idle", cur |-> 0, msg |-> <<>>, stored |-> FALSE]
GhIdle == [pc |-> "idle", slot |-> 0]

PbsInit ==
    /\ cache = [s \in ConstraintSlots |-> <<>>]
    /\ committed = [s \in ConstraintSlots |-> {}]
    /\ beacon_head = 1
    /\ sub = [p \in Submitters |-> SubIdle]
    /\ gh = GhIdle
    /\ pbs_out = NoOut

\* the chain moves on
BeaconAdvance ==
    /\ beacon_head < MaxBeaconHead
    /\ beacon_head' = beacon_head + 1
    /\ pbs_out' = NoOut
    /\ UNCHANGED <<cache, committed, sub, gh, gw_vars, sc_vars, ev_vars, aux_vars>>

\* submit_constraints, up to the loop: the current slot is fetched
SubmitStart(p) ==
    /\ sub[p].pc = "idle"
    /\ sub' = [sub EXCEPT ![p] = [pc |-> "loop", cur |-> beacon_head, msg |-> <<>>, stored |-> FALSE]]
    /\ pbs_out' = NoOut
    /\ UNCHANGED <<cache, committed, beacon_head, gh, gw_vars, sc_vars, ev_vars, aux_vars>>

\* one iteration of the loop over the batch (the batch is drawn one message
\* at a time, as the loop reads it), up to and including add_constraints'
\* check_conflicts, which runs under the read lock
SubmitCheck(p, msg) ==
    /\ sub[p].pc = "loop"
    /\ IF msg.slot > sub[p].cur + EPOCH_SLOTS * 2
          THEN /\ sub' = [sub EXCEPT ![p] = SubIdle]
               /\ pbs_out' = [op |-> "submit", by |-> p, status |-> "BadRequest", why |-> "TooFar"]
          ELSE IF check_conflicts(cache, msg.slot, msg)
          THEN /\ sub' = [sub EXCEPT ![p] = SubIdle]
               /\ pbs_out' = [op |-> "submit", by |-> p, status |-> "BadRequest",
                              why |-> "DuplicateTransaction", msg |-> msg]
          ELSE /\ sub' = [sub EXCEPT ![p].pc = "write", ![p].msg = msg]
               /\ pbs_out' = NoOut
    /\ UNCHANGED <<cache, committed, beacon_head, gh, gw_vars, sc_vars, ev_vars, aux_vars>>

\* the rest of add_constraints: decode, then push under the write lock
SubmitWrite(p) ==
    /\ sub[p].pc = "write"
    /\ LET msg == sub[p].msg
           slot == msg.slot
       IN IF ~TryFromOk(msg)
             THEN /\ sub' = [sub EXCEPT ![p] = SubIdle]
                  /\ pbs_out' = [op |-> "submit", by |-> p, status |-> "BadRequest", why |-> "Decode"]
                  /\ UNCHANGED <<cache, committed>>
          ELSE IF limit_reached(cache[slot])
             THEN /\ sub' = [sub EXCEPT ![p] = SubIdle]
                  /\ pbs_out' = [op |-> "submit", by |-> p, status |-> "BadRequest",
                                 why |-> "LimitExceeded"]
                  /\ UNCHANGED <<cache, committed>>
          ELSE /\ cache' = [cache EXCEPT ![slot] = Append(@, msg)]
               /\ committed' = [committed EXCEPT ![slot] = @ \cup {msg}]
               /\ sub' = [sub EXCEPT ![p] = [pc |-> "loop", cur |-> sub[p].cur, msg |-> <<>>, stored |-> TRUE]]
               /\ pbs_out' = NoOut
    /\ UNCHANGED <<beacon_head, gh, gw_vars, sc_vars, ev_vars, aux_vars>>

\* ---- relay_post_request ----
\* what the POST to one relay comes to: a response with status 200, a
\* response with another status, or a failed request
PostResults == {"200", "500", "err"}

\* relay_post_request that gives up at the first relay that did not answer 200
relay_post_request_all(responses) ==
    \A r \in Relays : responses[r] = "200"

\* relay_post_request: every relay is posted to, every response is awaited;
\* Ok (TRUE) when some relay answered 200, NoResponse (FALSE) otherwise
relay_post_request(responses) ==
    \E r \in Relays : responses[r] = "200"

\* delegate and revoke: the body is posted to the relays, nothing else
delegate(responses) ==
    /\ pbs_out' = [op |-> "delegate", responses |-> responses,
                   status |-> IF relay_post_request(responses) THEN "OK" ELSE "NoResponse"]
    /\ UNCHANGED <<cache, committed, beacon_head, sub, gh, gw_vars, sc_vars, ev_vars, aux_vars>>

revoke(responses) ==
    /\ pbs_out' = [op |-> "revoke", responses |-> responses,
                   status |-> IF relay_post_request(responses) THEN "OK" ELSE "NoResponse"]
    /\ UNCHANGED <<cache, committed, beacon_head, sub, gh, gw_vars, sc_vars, ev_vars, aux_vars>>

\* the batch is exhausted: relay_post_request, which fails when no relay answers 200
SubmitPost(p, relay_ok) ==
    /\ sub[p].pc = "loop"
    /\ sub' = [sub EXCEPT ![p] = SubIdle]
    /\ pbs_out' = [op |-> "submit", by |-> p,
                   status |-> IF relay_ok THEN "OK" ELSE "NoResponse", why |-> "post"]
    /\ UNCHANGED <<cache, committed, beacon_head, gh, gw_vars, sc_vars, ev_vars, aux_vars>>

\* register_validator: remove_before_constraints(current slot)
RegisterValidator ==
    /\ cache' = [s \in ConstraintSlots |-> IF s >= beacon_head THEN cache[s] ELSE <<>>]
    /\ committed' = [s \in ConstraintSlots |-> IF s >= beacon_head THEN committed[s] ELSE {}]
    /\ pbs_out' = NoOut
    /\ UNCHANGED <<beacon_head, sub, gh, gw_vars, sc_vars, ev_vars, aux_vars>>

\* ---- get_header_with_proofs ----
\* What a relay's bid says about its block: the transactions its
\* transactions_root commits to (tree) and the transaction hashes its
\* inclusion proof lists (proofs).
BidContents ==
    { [tree |-> {},           proofs |-> <<>>],
      [tree |-> {"h2"},       proofs |-> <<"h2">>],
      [tree |-> {},           proofs |-> <<"h2">>],
      [tree |-> {"h2", "h3"}, proofs |-> <<"h2", "h3">>],
      [tree |-> {"h2", "h3"}, proofs |-> <<"h3">>] }

Bids == {[kind |-> "bid", value |-> v, tree |-> b.tree, proofs |-> b.proofs] :
            v \in 1..MaxBidValue, b \in BidContents}

NoBid(kind) == [kind |-> kind, value |-> 0, tree |-> {}, proofs |-> <<>>]

\* send_timed_get_header for one relay: a transport timeout, another error
\* (non-2xx, a body that does not decode, a header that fails validate_header),
\* 204, or a header with proofs
RelayResults == {NoBid("timeout"), NoBid("err"), NoBid("none")} \cup Bids

\* no relay was asked
Unasked == [r \in Relays |-> NoBid("unasked")]

\* the leaves of the constraints: every (tx_hash, hash_tree_root) of their proof data
Leaves(constraints) == FlatMap([i \in 1..Len(constraints) |-> ProofData(constraints[i])])

\* validate_multiproofs: as many proved hashes as leaves, every proved hash
\* is the hash of a leaf, and the Merkle multiproof of those leaves verifies
\* against the bid's transactions_root
validate_multiproofs(constraints, bid) ==
    /\ Len(bid.proofs) = Len(Leaves(constraints))
    /\ \A i \in 1..Len(bid.proofs) : bid.proofs[i] \in Range(Leaves(constraints))
    /\ \A i \in 1..Len(bid.proofs) : bid.proofs[i] \in bid.tree

\* the loop over the relay results: a bid is kept when there are no
\* constraints for the slot or its multiproof verifies
KeepBid(maybe_constraints, res) ==
    /\ res \in Bids
    /\ (maybe_constraints # <<>> => validate_multiproofs(maybe_constraints, res))

RECURSIVE RelayBids(_, _, _)
RelayBids(maybe_constraints, results, i) ==
    IF i > Len(RelayOrder) THEN <<>>
    ELSE (IF KeepBid(maybe_constraints, results[RelayOrder[i]])
             THEN <<results[RelayOrder[i]]>> ELSE <<>>)
         \o RelayBids(maybe_constraints, results, i + 1)

\* the same loop with the relays configured in another order
RelayOrders == {order \in [1..Len(RelayOrder) -> Relays] : Range(order) = Relays}

RECURSIVE RelayBidsOver(_, _, _, _)
RelayBidsOver(order, maybe_constraints, results, i) ==
    IF i > Len(RelayOrder) THEN <<>>
    ELSE (IF KeepBid(maybe_constraints, results[order[i]])
             THEN <<results[order[i]]>> ELSE <<>>)
         \o RelayBidsOver(order, maybe_constraints, results, i + 1)

\* the first element, whatever its value
FirstBid(bids) == bids[1]

\* Iterator::max_by_key: the last of the elements of maximal key
MaxByValue(bids) ==
    LET best == CHOOSE i \in 1..Len(bids) :
                    /\ \A j \in 1..Len(bids) : bids[j].value <= bids[i].value
                    /\ \A j \in (i + 1)..Len(bids) : bids[j].value < bids[i].value
    IN bids[best]

\* get_header_with_proofs up to join_all: a request late in its slot is
\* answered 204 at once, the others wait for the relays
GetHeaderStart(slot, late) ==
    /\ gh.pc = "idle"
    /\ IF late
          THEN /\ gh' = GhIdle
               /\ pbs_out' = [op |-> "get_header", slot |-> slot, status |-> 204,
                              header |-> NoBid("none"), taken |-> <<>>, results |-> Unasked]
          ELSE /\ gh' = [pc |-> "fetch", slot |-> slot]
               /\ pbs_out' = NoOut
    /\ UNCHANGED <<cache, committed, beacon_head, sub, gw_vars, sc_vars, ev_vars, aux_vars>>

\* the response when a transport timeout at a relay is answered as an error
HeaderResponseTimeoutIsError(slot, maybe_constraints, results) ==
    [op |-> "get_header", slot |-> slot,
     status |-> IF \E r \in Relays : results[r].kind = "timeout" THEN 504 ELSE 204,
     header |-> NoBid("none"), taken |-> maybe_constraints, results |-> results]

\* the loop over the results of join_all and the answer: the kept bid of
\* highest value with 200, or 204 when no bid was kept
HeaderResponse(slot, maybe_constraints, results) ==
    LET relay_bids == RelayBids(maybe_constraints, results, 1)
    IN IF relay_bids # <<>>
       THEN [op |-> "get_header", slot |-> slot, status |-> 200,
             header |-> MaxByValue(relay_bids), taken |-> maybe_constraints,
             results |-> results]
       ELSE [op |-> "get_header", slot |-> slot, status |-> 204,
             header |-> NoBid("none"), taken |-> maybe_constraints, results |-> results]

\* the relays have answered: take the slot's constraints, keep the bids
\* that verify, answer with the best
GetHeaderFinish(results) ==
    /\ gh.pc = "fetch"
    /\ cache' = [cache EXCEPT ![gh.slot] = <<>>]
    /\ pbs_out' = HeaderResponse(gh.slot, cache[gh.slot], results)
    /\ gh' = GhIdle
    /\ UNCHANGED <<committed, beacon_head, sub, gw_vars, sc_vars, ev_vars, aux_vars>>

\* ---- specifications of the relay proxy ----
\* the store under concurrent submit_constraints handlers
StoreNext ==
    \/ BeaconAdvance
    \/ RegisterValidator
    \/ \E p \in Submitters : SubmitStart(p)
    \/ \E p \in Submitters, m \in Messages : SubmitCheck(p, m)
    \/ \E p \in Submitters : SubmitWrite(p)
    \/ \E p \in Submitters, ok \in BOOLEAN : SubmitPost(p, ok)


\* the store filled to its limit: one handler submits a fresh transaction
\* per message, a second handler joins when the slot is nearly full
RaceFrom == PER_SLOT_MAX_CONSTRAINTS - 2

FreshMessage == [slot |-> 2, transactions |-> <<ToString(Len(cache[2]) + 1)>>]

FillNext ==
    \/ SubmitStart("p1")
    \/ Len(cache[2]) >= RaceFrom /\ SubmitStart("p2")
    \/ \E p \in Submitters : SubmitCheck(p, FreshMessage)
    \/ \E p \in Submitters : SubmitWrite(p)
    \/ \E p \in Submitters : SubmitPost(p, TRUE)

\* header requests interleaved with the steps of a submit_constraints handler
HeaderNext ==
    \/ BeaconAdvance
    \/ RegisterValidator
    \/ SubmitStart("p1")
    \/ \E m \in Messages : SubmitCheck("p1", m)
    \/ SubmitWrite("p1")
    \/ \E ok \in BOOLEAN : SubmitPost("p1", ok)
    \/ \E s \in StoreSlots, late \in BOOLEAN : GetHeaderStart(s, late)
    \/ \E results \in [Relays -> RelayResults] : GetHeaderFinish(results)

\* header requests over a store that one submit_constraints handler fills
BidsNext ==
    \/ SubmitStart("p1")
    \/ \E m \in Messages : SubmitCheck("p1", m)
    \/ SubmitWrite("p1")
    \/ \E ok \in BOOLEAN : SubmitPost("p1", ok)
    \/ \E s \in StoreSlots, late \in BOOLEAN : GetHeaderStart(s, late)
    \/ \E results \in [Relays -> RelayResults] : GetHeaderFinish(results)

\* every fan-out of the relay proxy: the POSTs of submit_constraints, delegate
\* and revoke, and the header requests
FanoutMessages == {m \in Messages : m.slot \in StoreSlots /\ m.transactions[1] = "t2"}

FanoutNext ==
    \/ SubmitStart("p1")
    \/ \E m \in FanoutMessages : SubmitCheck("p1", m)
    \/ SubmitWrite("p1")
    \/ \E responses \in [Relays -> PostResults] : SubmitPost("p1", relay_post_request(responses))
    \/ \E responses \in [Relays -> PostResults] : delegate(responses)
    \/ \E responses \in [Relays -> PostResults] : revoke(responses)
    \/ \E s \in StoreSlots, late \in BOOLEAN : GetHeaderStart(s, late)
    \/ \E results \in [Relays -> RelayResults] : GetHeaderFinish(results)

\* ---- properties of the relay proxy ----
\* the transaction hashes committed for a slot: those of every message the store accepted
CommittedHashes(slot) ==
    UNION {Range(ProofData(m)) : m \in committed[slot]}

\* C1: every header that get_header_with_proofs returns for a slot S commits,
\* in its transactions tree, to every transaction committed for S, for
\* every request made for S in any order with the constraint submissions.
C1_ReturnedHeaderIncludesCommitted ==
    (pbs_out.op = "get_header" /\ pbs_out.status = 200) =>
        CommittedHashes(pbs_out.slot) \subseteq pbs_out.header.tree

\* C6: for every slot, no two constraints held in the store share a
\* transaction hash, whatever the interleaving of the handlers that add them.
C6_NoSharedTxHash ==
    \A s \in ConstraintSlots :
        \A i, j \in 1..Len(cache[s]) :
            i # j => Range(ProofData(cache[s][i])) \cap Range(ProofData(cache[s][j])) = {}

\* ========================================================================
\* GATEWAY: commitment state, event loop and execution-layer preflight
\* ========================================================================
SLOTS_PER_EPOCH == 32
max_commitments_in_block == 128
max_commitment_gas == 10000000
block_gas_limit == 30000000
max_committed_gas_per_slot == 10000000

\* u128::MAX, scaled to fit 32-bit model integers: the overflow guard of
\* calculate_max_basefee keeps max_basefee * 1125 below it
U128_MAX == 2^30 - 1
None == 0 - 1

\* Option<T>
NoneOpt == [some |-> FALSE]

Some(v) == [some |-> TRUE, v |-> v]

DeadlineDuration == 2   \* deadline_duration, in ticks
MaxTasks == 2           \* spawned handlers waiting for the state lock
MaxRuns == 2            \* requests arrive while the templates hold fewer runs of constraints

\* CommitmentDeadline::new(0, 100 ms) at construction: one tick
InitialDeadline == 1

\* the slots a block template is kept for
BlockSlots == {51, 55, 60, 62, 63, 64, 72}

\* the accounts as the execution client reports them
Senders == {"a1", "a2"}
SpendHead == 70
ChainAccount(sender) ==
    [transaction_count |-> IF sender = "a1" THEN (IF chain.head >= SpendHead THEN 1 ELSE 0) ELSE 5,
     has_code |-> FALSE]

\* A request: n transactions of one sender with nonces nonce, nonce + 1, ...,
\* each with gas limit gas and fee cap max_fee; chain_ok: it carries the
\* configured chain id; content_ok: sizes and priority fees are within limits.
\* A template holds runs: the constraints signed for one request under one
\* delegatee, one per transaction.
Run(req, delegatee) ==
    [sender |-> req.sender, nonce |-> req.nonce, n |-> req.n, gas |-> req.gas,
     delegatee |-> delegatee]

gas_limit(req) == req.n * req.gas

Block(slot) == IF slot \in DOMAIN blocks THEN blocks[slot] ELSE <<>>

\* Block::transactions_count and Block::committed_gas
transactions_count(block) == SumSeq([i \in 1..Len(block) |-> block[i].n])

committed_gas(block) == SumSeq([i \in 1..Len(block) |-> block[i].n * block[i].gas])

\* ---- execution-layer preflight (verify_el_tx) ----
\* calculate_max_basefee without the + 1 of each step
RECURSIVE calculate_max_basefee_no_increment(_, _)
calculate_max_basefee_no_increment(current, block_diff) ==
    IF block_diff = 0 THEN current
    ELSE IF current > U128_MAX \div 1125 THEN None
    ELSE calculate_max_basefee_no_increment((current * 1125) \div 1000, block_diff - 1)

RECURSIVE calculate_max_basefee(_, _)
calculate_max_basefee(current, block_diff) ==
    IF block_diff = 0 THEN current
    ELSE IF current > U128_MAX \div 1125 THEN None
    ELSE calculate_max_basefee((current * 1125) \div 1000 + 1, block_diff - 1)

\* InclusionRequest::validate_basefee: no transaction's fee cap is below min
validate_basefee(req, min) == ~(req.max_fee < min)

saturating_sub(a, b) == IF a > b THEN a - b ELSE 0

\* compute_diffs folds over ExecutionState.block_templates, which nothing
\* ever inserts into: the nonce diff and the highest slot are always 0
compute_diffs(sender) == [nonce_diff |-> 0, highest_slot |-> 0]

\* validate_transaction for the i-th transaction of the request (0-based),
\* against the account state plus the diffs of the templates and of the bundle
validate_transaction(req, i) ==
    LET count == ChainAccount(req.sender).transaction_count
                    + compute_diffs(req.sender).nonce_diff + i
        nonce == req.nonce + i
    IN IF nonce < count THEN "NonceTooLow"
       ELSE IF nonce > count THEN "NonceTooHigh"
       ELSE IF ChainAccount(req.sender).has_code THEN "AccountHasCode"
       ELSE "ok"

\* the checks of verify_el_tx that precede the loop over the transactions
verify_el_head(req) ==
    LET preconfirmed_gas == 0
        slot_diff == saturating_sub(req.slot, execution.slot)
        max_basefee == calculate_max_basefee(execution.basefee, slot_diff)
    IN IF ~req.chain_ok THEN "ChainIdMismatch"
       ELSE IF preconfirmed_gas + gas_limit(req) >= max_committed_gas_per_slot
          THEN "MaxCommittedGasReachedForSlot"
       ELSE IF ~req.content_ok THEN "TransactionSizeTooHigh"
       ELSE IF gas_limit(req) > block_gas_limit THEN "GasLimitTooHigh"
       ELSE IF max_basefee = None THEN "MaxBaseFeeCalcOverflow"
       ELSE IF ~validate_basefee(req, max_basefee) THEN "BaseFeeTooLow"
       ELSE IF req.slot < execution.slot THEN "SlotTooLow"
       ELSE "ok"

\* the loop: the first transaction that fails validate_transaction decides
verify_el_loop(req) ==
    IF req.slot < compute_diffs(req.sender).highest_slot THEN "SlotTooLow"
    ELSE IF \E i \in 0..(req.n - 1) : validate_transaction(req, i) # "ok"
       THEN validate_transaction(req, CHOOSE i \in 0..(req.n - 1) :
                /\ validate_transaction(req, i) # "ok"
                /\ \A j \in 0..(i - 1) : validate_transaction(req, j) = "ok")
    ELSE "ok"

verify_el_tx(req) ==
    IF verify_el_head(req) # "ok" THEN verify_el_head(req) ELSE verify_el_loop(req)

\* ---- ConstraintState ----
find_validator_pubkey_for_slot(slot) == current_epoch.duties = slot \div SLOTS_PER_EPOCH

\* validate_preconf_request without its deadline check
validate_preconf_request_no_deadline(req) ==
    IF ~req.chain_ok THEN "InvalidChainId"
    ELSE IF \/ req.slot < current_epoch.start_slot
            \/ req.slot >= current_epoch.start_slot + SLOTS_PER_EPOCH
       THEN "InvalidSlot"
    ELSE IF ~find_validator_pubkey_for_slot(req.slot) THEN "NoValidatorInSlot"
    ELSE IF req.n >= max_commitments_in_block THEN "OverflowCommitments"
    ELSE IF /\ Block(req.slot) # <<>>
            /\ transactions_count(Block(req.slot)) + req.n >= max_commitments_in_block
       THEN "OverflowCommitments"
    ELSE IF committed_gas(Block(req.slot)) + gas_limit(req) > max_commitment_gas
       THEN "OverflowGasLimit"
    ELSE IF ~req.content_ok THEN "OverflowTransactionSize"
    ELSE IF gas_limit(req) > block_gas_limit THEN "OverflowGasLimit"
    ELSE IF req.slot <= latest_slot THEN "SlotPassed"
    ELSE IF verify_el_tx(req) # "ok" THEN "ElValidationFailed"
    ELSE "ok"

\* validate_preconf_request whose passed-slot check lets the head slot itself through
validate_preconf_request_head_slot(req) ==
    IF ~req.chain_ok THEN "InvalidChainId"
    ELSE IF \/ req.slot < current_epoch.start_slot
            \/ req.slot >= current_epoch.start_slot + SLOTS_PER_EPOCH
       THEN "InvalidSlot"
    ELSE IF req.slot = latest_slot + 1 /\ elapsed > DeadlineDuration THEN "DeadlineExpired"
    ELSE IF ~find_validator_pubkey_for_slot(req.slot) THEN "NoValidatorInSlot"
    ELSE IF req.n >= max_commitments_in_block THEN "OverflowCommitments"
    ELSE IF /\ Block(req.slot) # <<>>
            /\ transactions_count(Block(req.slot)) + req.n >= max_commitments_in_block
       THEN "OverflowCommitments"
    ELSE IF committed_gas(Block(req.slot)) + gas_limit(req) > max_commitment_gas
       THEN "OverflowGasLimit"
    ELSE IF ~req.content_ok THEN "OverflowTransactionSize"
    ELSE IF gas_limit(req) > block_gas_limit THEN "OverflowGasLimit"
    ELSE IF req.slot < latest_slot THEN "SlotPassed"
    ELSE IF verify_el_tx(req) # "ok" THEN "ElValidationFailed"
    ELSE "ok"

\* validate_preconf_request: the first check that fails names the result
validate_preconf_request(req) ==
    IF ~req.chain_ok THEN "InvalidChainId"
    ELSE IF \/ req.slot < current_epoch.start_slot
            \/ req.slot >= current_epoch.start_slot + SLOTS_PER_EPOCH
       THEN "InvalidSlot"
    ELSE IF req.slot = latest_slot + 1 /\ elapsed > DeadlineDuration THEN "DeadlineExpired"
    ELSE IF ~find_validator_pubkey_for_slot(req.slot) THEN "NoValidatorInSlot"
    ELSE IF req.n >= max_commitments_in_block THEN "OverflowCommitments"
    ELSE IF /\ Block(req.slot) # <<>>
            /\ transactions_count(Block(req.slot)) + req.n >= max_commitments_in_block
       THEN "OverflowCommitments"
    ELSE IF committed_gas(Block(req.slot)) + gas_limit(req) > max_commitment_gas
       THEN "OverflowGasLimit"
    ELSE IF ~req.content_ok THEN "OverflowTransactionSize"
    ELSE IF gas_limit(req) > block_gas_limit THEN "OverflowGasLimit"
    ELSE IF req.slot <= latest_slot THEN "SlotPassed"
    ELSE IF verify_el_tx(req) # "ok" THEN "ElValidationFailed"
    ELSE "ok"

\* the sender's account fetched and cached before any check of the request
account_fetched_first(req, result) == TRUE

\* validation got as far as the loop of verify_el_tx, which caches the sender's account
ReachesAccountFetch(req, result) ==
    /\ result \in {"ok", "ElValidationFailed"}
    /\ verify_el_head(req) = "ok"
    /\ ~(req.slot < compute_diffs(req.sender).highest_slot)

\* add_constraint, once per delegation signed under: the run of the request's constraints
RECURSIVE add_constraints(_, _, _)
add_constraints(block, req, signed) ==
    IF signed = 0 THEN block
    ELSE Append(add_constraints(block, req, signed - 1), Run(req, signed))

NoReq ==
    [slot |-> 0, sender |-> "none", nonce |-> 0, n |-> 0, gas |-> 0, max_fee |-> 0,
     chain_ok |-> TRUE, content_ok |-> TRUE]

\* duties: what became of fetch_proposer_duties in a head update, "none" when
\* it was not called
GwNoOut ==
    [op |-> "none", slot |-> 0, result |-> "none", el |-> "none", resolved |-> 0,
     taken |-> <<>>, req |-> NoReq, held |-> {}, duties |-> "none", payload |-> NoneOpt]

\* no request handler is between its validation and its insertion
NoActive ==
    [kind |-> "none", index |-> 0, req |-> NoReq, result |-> "none",
     seen |-> [latest_slot |-> 0, current_epoch |-> [value |-> 0, start_slot |-> 0, duties |-> None],
               blocks |-> [s \in BlockSlots |-> <<>>]]]

\* a lock().await that never waits
constraint_state_unguarded == TRUE

\* constraint_state.lock().await returns: no other task holds the mutex
constraint_state_free == active = NoActive

RECURSIVE RunsIn(_)
RunsIn(S) ==
    IF S = {} THEN 0
    ELSE LET s == CHOOSE x \in S : TRUE IN Len(blocks[s]) + RunsIn(S \ {s})

TotalRuns == RunsIn(BlockSlots)

GwInit ==
    /\ latest_slot = 0
    /\ elapsed = 0
    /\ current_epoch = [value |-> 0, start_slot |-> 0, duties |-> None]
    /\ blocks = [s \in BlockSlots |-> <<>>]
    /\ commitment_deadline = [slot |-> 0, remaining |-> InitialDeadline, armed |-> TRUE,
                              fired |-> 0]
    /\ requests = <<>>
    /\ active = NoActive
    /\ tasks = {}
    /\ chain = [head |-> 0, basefee |-> 7]
    /\ execution = [slot |-> 0, basefee |-> chain.basefee, account_states |-> {}]
    /\ gw_out = GwNoOut

\* time passes: Instant::now() moves away from latest_slot_timestamp, the sleep runs down
Tick ==
    /\ elapsed <= DeadlineDuration \/ (commitment_deadline.armed /\ commitment_deadline.remaining > 0)
    /\ elapsed' = IF elapsed <= DeadlineDuration THEN elapsed + 1 ELSE elapsed
    /\ commitment_deadline' =
          IF commitment_deadline.armed /\ commitment_deadline.remaining > 0
             THEN [commitment_deadline EXCEPT !.remaining = @ - 1]
             ELSE commitment_deadline
    /\ gw_out' = GwNoOut
    /\ UNCHANGED <<latest_slot, current_epoch, blocks, tasks, chain, execution, pbs_vars, sc_vars, ev_vars, aux_vars>>

\* event loop, head arm: the beacon node announces a head; handle_head_event is spawned
next_head(slot, basefee) ==
    /\ constraint_state_free
    /\ slot > chain.head
    /\ Cardinality(tasks) < MaxTasks
    /\ chain' = [head |-> slot, basefee |-> basefee]
    /\ tasks' = tasks \cup {[kind |-> "head", slot |-> slot, resolved |-> 0]}
    /\ gw_out' = GwNoOut
    /\ UNCHANGED <<latest_slot, elapsed, current_epoch, blocks, commitment_deadline,
                   execution, pbs_vars, sc_vars, ev_vars, aux_vars>>

\* Future for CommitmentDeadline: None at once when the sleep is gone,
\* Some(slot) when the sleep has run down, pending before
poll(deadline) ==
    IF ~deadline.armed THEN [ready |-> TRUE, slot |-> None]
    ELSE IF deadline.remaining = 0 THEN [ready |-> TRUE, slot |-> deadline.slot]
    ELSE [ready |-> FALSE, slot |-> None]

\* a wait that leaves the sleep in place
wait_keeps_sleep(deadline) ==
    [slot |-> poll(deadline).slot, deadline |-> deadline]

\* CommitmentDeadline::wait: what the poll resolved to; the sleep is dropped
wait(deadline) ==
    [slot |-> poll(deadline).slot, deadline |-> [deadline EXCEPT !.armed = FALSE]]

\* event loop, deadline arm: commitment_deadline.wait() resolves with
\* Some(slot); handle_commitment_deadline(slot + 1) is spawned
deadline_wait ==
    /\ constraint_state_free
    /\ poll(commitment_deadline).ready
    /\ wait(commitment_deadline).slot # None
    /\ Cardinality(tasks) < MaxTasks
    /\ tasks' = tasks \cup {[kind |-> "deadline", slot |-> wait(commitment_deadline).slot + 1,
                             resolved |-> wait(commitment_deadline).slot]}
    /\ commitment_deadline' = [wait(commitment_deadline).deadline EXCEPT !.fired = @ + 1]
    /\ gw_out' = GwNoOut
    /\ UNCHANGED <<latest_slot, elapsed, current_epoch, blocks, chain, execution, pbs_vars, sc_vars, ev_vars, aux_vars>>

\* FallbackBuilder::build_fallback_payload(block, slot): the payload and bid
\* built from the block's constraints for the slot are kept
build_fallback_payload(block, slot) == Some([slot |-> slot, block |-> block])

\* handle_commitment_deadline(slot): take blocks[slot]; when there is one,
\* send its constraints to the relays and pre-build the fallback payload for slot
handle_commitment_deadline(t) ==
    /\ constraint_state_free
    /\ t \in tasks
    /\ t.kind = "deadline"
    /\ tasks' = tasks \ {t}
    /\ blocks' = [s \in BlockSlots |-> IF s = t.slot THEN <<>> ELSE blocks[s]]
    /\ gw_out' = [GwNoOut EXCEPT !.op = "deadline", !.slot = t.slot, !.resolved = t.resolved,
                                 !.held = {"constraint_state", "commit_boost_api",
                                           "fallback_builder"},
                                 !.result = IF Block(t.slot) = <<>> THEN "no_block" ELSE "sent",
                                 !.taken = Block(t.slot)]
    /\ \E built \in BOOLEAN :
          payload_and_bid' = IF Block(t.slot) # <<>> /\ built
                                THEN build_fallback_payload(Block(t.slot), t.slot)
                                ELSE payload_and_bid
    /\ UNCHANGED <<latest_slot, elapsed, current_epoch, commitment_deadline, chain,
                   execution, pbs_vars, sc_vars, ev_vars, beside_payload_and_bid>>

\* event loop, payload arm: handle_local_payload_request(slot) answers the
\* sidecar proxy with what get_cached_payload gives; taken: the call empties
\* the cache
handle_local_payload_request(slot) ==
    /\ constraint_state_free
    /\ \E taken \in BOOLEAN : payload_and_bid' = IF taken THEN NoneOpt ELSE payload_and_bid
    /\ gw_out' = [GwNoOut EXCEPT !.op = "payload", !.slot = slot,
                                 !.held = {"constraint_state", "fallback_builder"},
                                 !.result = IF payload_and_bid.some THEN "payload" ELSE "none",
                                 !.payload = payload_and_bid]
    /\ UNCHANGED <<latest_slot, elapsed, current_epoch, blocks, commitment_deadline, tasks,
                   chain, execution, pbs_vars, sc_vars, ev_vars, beside_payload_and_bid>>

\* handle_head_event(slot): ConstraintState::update_head, then
\* ExecutionState::update_head whether or not the first succeeded.
\* header_ok: get_beacon_header_with_retry returns the header;
\* duties_ok: fetch_proposer_duties succeeds; state_ok: get_state_update succeeds.
handle_head_event(t, header_ok, duties_ok, state_ok) ==
    /\ constraint_state_free
    /\ t \in tasks
    /\ t.kind = "head"
    /\ tasks' = tasks \ {t}
    /\ commitment_deadline' = [slot |-> t.slot + 1, remaining |-> DeadlineDuration, armed |-> TRUE,
                               fired |-> 0]
    /\ IF header_ok
          THEN /\ elapsed' = 0
               /\ latest_slot' = t.slot
               /\ blocks' = [s \in BlockSlots |-> IF s = t.slot THEN <<>> ELSE blocks[s]]
               /\ current_epoch' =
                     LET epoch == t.slot \div SLOTS_PER_EPOCH
                     IN IF epoch # current_epoch.value
                           THEN [value |-> epoch, start_slot |-> epoch * SLOTS_PER_EPOCH,
                                 duties |-> IF duties_ok THEN epoch ELSE current_epoch.duties]
                           ELSE current_epoch
          ELSE UNCHANGED <<elapsed, latest_slot, blocks, current_epoch>>
    /\ execution' = [execution EXCEPT !.slot = t.slot,
                                      !.basefee = IF state_ok THEN chain.basefee ELSE @]
    /\ gw_out' = [GwNoOut EXCEPT !.op = "head", !.slot = t.slot,
                                 !.held = {"constraint_state"},
                                 !.result = IF header_ok THEN "ok" ELSE "header_failed",
                                 !.duties =
                                    IF header_ok /\ t.slot \div SLOTS_PER_EPOCH # current_epoch.value
                                       THEN IF duties_ok THEN "fetched" ELSE "failed"
                                       ELSE "none"]
    /\ UNCHANGED <<chain, pbs_vars, sc_vars, ev_vars, aux_vars>>

\* event loop, request arm, and the handler it spawns.
\* delegations: how many delegations the relay lists from the slot's
\* validator to a key of this gateway; signed: how many of them were signed
\* under before sign_commit_boost_root failed (signed = delegations: none failed).
handle_preconfirmation_request(req, delegations, signed) ==
    /\ constraint_state_free
    /\ TotalRuns < MaxRuns
    /\ LET result == validate_preconf_request(req)
       IN /\ execution' = IF ReachesAccountFetch(req, result)
                             THEN [execution EXCEPT !.account_states = @ \cup {req.sender}]
                             ELSE execution
          /\ IF result = "ok"
                THEN /\ blocks' = [blocks EXCEPT ![req.slot] = add_constraints(@, req, signed)]
                     /\ gw_out' = [GwNoOut EXCEPT !.op = "request", !.slot = req.slot, !.req = req,
                                      !.held = {"constraint_state"},
                                      !.result = IF signed = delegations THEN "accepted" ELSE "no_reply"]
                ELSE /\ blocks' = blocks
                     /\ gw_out' = [GwNoOut EXCEPT !.op = "request", !.slot = req.slot, !.req = req,
                                      !.held = {"constraint_state"},
                                      !.result = result,
                                      !.el = IF result = "ElValidationFailed" THEN verify_el_tx(req) ELSE "none"]
    /\ UNCHANGED <<latest_slot, elapsed, current_epoch, commitment_deadline, tasks, chain, pbs_vars, sc_vars, ev_vars, aux_vars>>

\* event loop, request arm alone: the request is received and its handler is
\* spawned; the handler has not taken the state lock yet. Every client sends
\* one request.
recv_request(req) ==
    /\ constraint_state_free
    /\ \A i \in DOMAIN requests : requests[i].req.sender # req.sender
    /\ requests' = Append(requests, [req |-> req, taken |-> FALSE])
    /\ gw_out' = GwNoOut
    /\ UNCHANGED <<latest_slot, elapsed, current_epoch, blocks, commitment_deadline, tasks,
                   chain, execution, active, pbs_vars, sc_vars, aux_vars>>

\* the spawned handle_preconfirmation_request up to the relay's delegations:
\* it takes the state lock and validates; a rejected request is answered and
\* the lock released, an accepted one goes on to ask the relay, lock held
handle_preconfirmation_request_validate(i) ==
    /\ constraint_state_free
    /\ TotalRuns < MaxRuns
    /\ i \in DOMAIN requests
    /\ ~requests[i].taken
    /\ requests' = [requests EXCEPT ![i].taken = TRUE]
    /\ LET req == requests[i].req
           result == validate_preconf_request(req)
       IN /\ execution' = IF ReachesAccountFetch(req, result)
                             THEN [execution EXCEPT !.account_states = @ \cup {req.sender}]
                             ELSE execution
          /\ IF result = "ok"
                THEN /\ active' = [kind |-> "request", index |-> i, req |-> req, result |-> result,
                                   seen |-> [latest_slot |-> latest_slot,
                                             current_epoch |-> current_epoch,
                                             blocks |-> blocks]]
                     /\ gw_out' = GwNoOut
                ELSE /\ active' = NoActive
                     /\ gw_out' = [GwNoOut EXCEPT !.op = "request", !.slot = req.slot, !.req = req,
                                      !.held = {"constraint_state"},
                                      !.result = result,
                                      !.el = IF result = "ElValidationFailed" THEN verify_el_tx(req) ELSE "none"]
    /\ UNCHANGED <<latest_slot, elapsed, current_epoch, blocks, commitment_deadline, tasks,
                   chain, pbs_vars, sc_vars, aux_vars>>

\* the rest of the handler: the delegations are in, the constraints are
\* signed and added to the slot's template, the client is answered, the
\* lock is released
handle_preconfirmation_request_insert(delegations, signed) ==
    /\ active.kind = "request"
    /\ blocks' = [blocks EXCEPT ![active.req.slot] = add_constraints(@, active.req, signed)]
    /\ gw_out' = [GwNoOut EXCEPT !.op = "request", !.slot = active.req.slot, !.req = active.req,
                     !.held = {"constraint_state"},
                     !.result = IF signed = delegations THEN "accepted" ELSE "no_reply"]
    /\ active' = NoActive
    /\ UNCHANGED <<latest_slot, elapsed, current_epoch, commitment_deadline, tasks, chain,
                   execution, requests, pbs_vars, sc_vars, aux_vars>>

\* ---- sidecar constraints proxy server ----
\* the header fields check_locally_built_payload_integrity compares, in its order
HeaderFields ==
    <<"block_hash", "block_number", "state_root", "receipts_root", "prev_randao",
      "gas_limit", "gas_used", "timestamp", "extra_data", "base_fee_per_gas",
      "parent_hash", "fee_recipient", "logs_bloom", "blob_gas_used", "excess_blob_gas">>

ProxySlots == {1, 2}

BlockHashes == {1, 2}

\* the execution payload the fallback builder sealed for a slot, by its header fields
LocalPayload(slot, hash) ==
    [f \in Range(HeaderFields) |->
        IF f = "block_hash" THEN hash ELSE IF f = "block_number" THEN slot ELSE 0]

\* PayloadAndBid: the payload and the signed bid over its header
PayloadAndBid(slot, hash) ==
    [payload |-> LocalPayload(slot, hash),
     bid |-> [block_hash |-> hash, block_number |-> slot]]

\* what PayloadFetcher::fetch_payload answers: None when the builder holds no
\* payload for the slot or the channel is closed
FetchResults(slot) == {NoneOpt} \cup {Some(PayloadAndBid(slot, h)) : h \in BlockHashes}

\* what timeout(GET_HEADER_WITH_PROOFS_TIMEOUT, proxier.get_header_with_proofs) yields:
\* Err(Elapsed), Ok(Err(_)) or Ok(Ok(header))
ProxierResults ==
    {[kind |-> "elapsed", block_hash |-> 0], [kind |-> "err", block_hash |-> 0]}
        \cup {[kind |-> "header", block_hash |-> h] : h \in BlockHashes}

\* the execution payload headers a beacon node signs: a local payload's header,
\* or one that differs from it in one field
SignedBlindedBlocks ==
    LET locals == {LocalPayload(s, h) : s \in ProxySlots, h \in BlockHashes}
    IN locals \cup {[p EXCEPT ![f] = 9] : p \in locals, f \in Range(HeaderFields)}

\* the integrity check that compares the block hash alone
check_block_hash_only(block, payload) ==
    IF block["block_hash"] = payload["block_hash"]
    THEN [ok |-> TRUE, field |-> "none"]
    ELSE [ok |-> FALSE, field |-> "block_hash"]

\* check_locally_built_payload_integrity: the first field that differs is the
\* FieldMismatch returned
check_locally_built_payload_integrity(block, payload) ==
    LET bad == {i \in 1..Len(HeaderFields) : block[HeaderFields[i]] # payload[HeaderFields[i]]}
    IN IF bad = {}
       THEN [ok |-> TRUE, field |-> "none"]
       ELSE [ok |-> FALSE, field |-> HeaderFields[CHOOSE i \in bad : \A j \in bad : i <= j]]

ScNoOut ==
    [op |-> "none", slot |-> 0, result |-> "none", body |-> NoneOpt, relayed |-> "none",
     fetched |-> FALSE, cached |-> FALSE, block |-> NoneOpt, field |-> "none"]

ScInit ==
    /\ fallback_payload = NoneOpt
    /\ fallback_bid = NoneOpt
    /\ sc_out = ScNoOut

\* ConstraintsAPIProxyServer::get_header. relayed is what the timed
\* get_header_with_proofs yielded, fetched what the local builder answered.
get_header(authorized, slot, relayed, fetched) ==
    /\ IF ~authorized
       THEN /\ sc_out' = [ScNoOut EXCEPT !.op = "get_header", !.slot = slot,
                             !.result = "Unauthorized"]
            /\ UNCHANGED <<fallback_payload, fallback_bid>>
       ELSE IF relayed.kind # "elapsed"
       THEN \* Ok(header): the payload is cleared, then header? answers Ok or Err
            /\ fallback_payload' = NoneOpt
            /\ UNCHANGED fallback_bid
            /\ sc_out' = [ScNoOut EXCEPT !.op = "get_header", !.slot = slot,
                             !.relayed = relayed.kind,
                             !.result = IF relayed.kind = "header" THEN "relay_header" ELSE "error",
                             !.body = IF relayed.kind = "header"
                                      THEN Some([block_hash |-> relayed.block_hash,
                                                 block_number |-> slot])
                                      ELSE NoneOpt]
       ELSE IF ~fetched.some
       THEN \* fetch_payload(slot).await.unwrap() on None: the handler panics
            /\ sc_out' = [ScNoOut EXCEPT !.op = "get_header", !.slot = slot,
                             !.relayed = relayed.kind, !.fetched = TRUE, !.result = "panic"]
            /\ UNCHANGED <<fallback_payload, fallback_bid>>
       ELSE /\ fallback_payload' = Some(fetched.v.payload)
            /\ fallback_bid' = Some(fetched.v.bid)
            /\ sc_out' = [ScNoOut EXCEPT !.op = "get_header", !.slot = slot,
                             !.relayed = relayed.kind, !.fetched = TRUE,
                             !.result = "local_bid", !.body = Some(fetched.v.bid)]
    /\ UNCHANGED <<pbs_vars, gw_vars, ev_vars, aux_vars>>

\* ConstraintsAPIProxyServer::get_payload. parsed is whether the body is a
\* signed blinded block, forwarded what the relay answers when asked.
get_payload(authorized, parsed, block, forwarded) ==
    /\ sc_out' =
         IF ~authorized
         THEN [ScNoOut EXCEPT !.op = "get_payload", !.result = "Unauthorized"]
         ELSE IF ~parsed
         THEN [ScNoOut EXCEPT !.op = "get_payload", !.result = "ParseError"]
         ELSE IF fallback_payload.some /\ fallback_bid.some
         THEN LET checked == check_locally_built_payload_integrity(block, fallback_payload.v)
              IN [ScNoOut EXCEPT !.op = "get_payload", !.block = Some(block),
                     !.cached = fallback_payload.some,
                     !.result = IF checked.ok THEN "local_payload" ELSE "FieldMismatch",
                     !.field = checked.field,
                     !.body = IF checked.ok THEN fallback_payload ELSE NoneOpt]
         ELSE [ScNoOut EXCEPT !.op = "get_payload", !.block = Some(block),
                  !.cached = fallback_payload.some,
                  !.relayed = forwarded,
                  !.result = IF forwarded = "payload" THEN "relay_payload" ELSE "error",
                  !.body = IF forwarded = "payload" THEN Some(block) ELSE NoneOpt]
    /\ UNCHANGED <<fallback_payload, fallback_bid, pbs_vars, gw_vars, ev_vars, aux_vars>>

\* ---- commitment RPC server ----
CHANNEL_CAPACITY == 1024

\* the requests posted to /api/v1/preconfirmation, by what their signatures
\* recover to
RpcRequests ==
    {[signature |-> sg, txs_valid |-> tv] :
        sg \in {"sender", "other", "unrecoverable"}, tv \in BOOLEAN}

\* IntoResponse for CommitmentRequestError: the HTTP status of an error
into_response(error) ==
    CASE error = "Custom" -> 500
      [] error = "Parse" -> 400
      [] error = "NotAllowedIP" -> 401

RpcNoOut == [op |-> "none", result |-> "none", status |-> 0, why |-> "none", full |-> FALSE]

RpcInit ==
    /\ channel = <<>>
    /\ rpc_out = RpcNoOut

\* CommitmentRequestHandler::handle_commitment_request up to try_send: the
\* request signature, the transactions' signatures, then the event for the
\* event loop; a request that is sent waits for the loop's reply
handle_commitment_request(req) ==
    /\ IF req.signature = "unrecoverable"
       THEN /\ rpc_out' = [RpcNoOut EXCEPT !.op = "request", !.result = "Custom",
                              !.status = into_response("Custom"), !.why = "recover"]
            /\ UNCHANGED channel
       ELSE IF req.signature # "sender"
       THEN /\ rpc_out' = [RpcNoOut EXCEPT !.op = "request", !.result = "Custom",
                              !.status = into_response("Custom"), !.why = "Invalid signature"]
            /\ UNCHANGED channel
       ELSE IF ~req.txs_valid
       THEN /\ rpc_out' = [RpcNoOut EXCEPT !.op = "request", !.result = "Custom",
                              !.status = into_response("Custom"),
                              !.why = "Sender of the transaction is invalid"]
            /\ UNCHANGED channel
       ELSE IF Len(channel) >= CHANNEL_CAPACITY
       THEN \* try_send fails: the channel is full
            /\ rpc_out' = [RpcNoOut EXCEPT !.op = "request", !.result = "Custom",
                              !.status = into_response("Custom"),
                              !.why = "System overloaded", !.full = TRUE]
            /\ UNCHANGED channel
       ELSE /\ channel' = Append(channel, req)
            /\ rpc_out' = [RpcNoOut EXCEPT !.op = "request", !.result = "sent"]
    /\ UNCHANGED <<core_vars, beside_rpc>>

\* the event loop takes the next request event from the channel
receiver_recv ==
    /\ channel # <<>>
    /\ channel' = Tail(channel)
    /\ rpc_out' = [RpcNoOut EXCEPT !.op = "recv"]
    /\ UNCHANGED <<core_vars, beside_rpc>>

\* ---- fallback block builder ----
max_iterations == 20

\* the header fields a hint of the engine can set
HintFields == {"gas_used", "state_root", "receipts_root", "logs_bloom", "base_fee"}

\* what fetch_next_payload_hint can return
EngineApiHints == {"BlockHash", "ValidPayload", "InvalidEngineHint"} \cup HintFields

\* the values a hint carries; an unset header field has the default value 0,
\* and 0 also stands for the hash of the sealed block
HintValues == {1, 2}

\* Hints::default(): every hint None
NoHints == [f \in HintFields \cup {"block_hash"} |-> None]

\* Context.base_fee of the build
ContextBaseFee == 7

NoHint == [field |-> "none", value |-> 0]

\* build_header_with_hints_and_context, seal, create_alloy_execution_payload:
\* the fields of the payload that hints are about
build_payload(hints) ==
    [f \in HintFields \cup {"block_hash"} |->
        IF f = "base_fee" THEN ContextBaseFee
        ELSE IF hints[f] = None THEN 0 ELSE hints[f]]

BuilderIdle ==
    [pc |-> "idle", i |-> 0, hints |-> NoHints, calls |-> 0, result |-> "none",
     payload |-> build_payload(NoHints), hint |-> NoHint, hinted |-> NoHint]

BuilderInit == builder = BuilderIdle

\* build_sealed_block up to its loop: no hints, i = 0
build_sealed_block ==
    /\ builder.pc # "loop"
    /\ builder' = [BuilderIdle EXCEPT !.pc = "loop"]
    /\ UNCHANGED <<core_vars, beside_builder>>

\* one iteration of the loop: the header is built from the hints, the engine
\* is called once with the payload, and its answer ends the build or becomes
\* a hint. payload: the payload of this call; hinted: the hint that the
\* iteration before it got; hint: the hint this call got.
build_sealed_block_loop(engine_hint, value) ==
    /\ builder.pc = "loop"
    /\ LET called == [builder EXCEPT !.calls = @ + 1,
                                     !.payload = build_payload(builder.hints),
                                     !.hinted = builder.hint]
       IN builder' =
             IF engine_hint = "InvalidEngineHint"
                THEN [called EXCEPT !.pc = "done", !.result = "InvalidEngineHint"]
             ELSE IF engine_hint = "ValidPayload"
                THEN [called EXCEPT !.pc = "done", !.result = "Ok"]
             ELSE LET hinted ==
                         IF engine_hint = "BlockHash"
                            THEN [called EXCEPT !.hints["block_hash"] = value,
                                                !.hint = [field |-> "block_hash", value |-> value]]
                            ELSE [called EXCEPT !.hints[engine_hint] = value,
                                                !.hints["block_hash"] = None,
                                                !.hint = [field |-> engine_hint, value |-> value]]
                  IN IF builder.i > max_iterations
                        THEN [hinted EXCEPT !.pc = "done", !.result = "Too many iterations"]
                        ELSE [hinted EXCEPT !.i = @ + 1]
    /\ UNCHANGED <<core_vars, beside_builder>>

\* ---- beacon header fetch of update_head ----
MAX_RETRIES == 5
RETRY_BACKOFF_MILLIS == 100

\* what one get_beacon_header under timeout() comes to: the header, an error
\* of the beacon client, or no answer within TIMEOUT_SECS
FetchOutcomes == {"header", "err", "timeout"}

FetchIdle ==
    [pc |-> "idle", head |-> 0, retries_remaining |-> 0, backoff_millis |-> 0,
     attempts |-> 0, slept |-> <<>>, result |-> "none"]

FetchInit == fetch = FetchIdle

\* handle_head_event has the state lock and update_head enters
\* get_beacon_header_with_retry for the head it was spawned for
get_beacon_header_with_retry(t) ==
    /\ constraint_state_free
    /\ t \in tasks /\ t.kind = "head"
    /\ fetch.pc # "loop"
    /\ fetch.head # t.slot
    /\ \A u \in tasks : ~(u.kind = "head" /\ u.slot = fetch.head)
    /\ fetch' = [FetchIdle EXCEPT !.pc = "loop", !.head = t.slot,
                                  !.retries_remaining = MAX_RETRIES,
                                  !.backoff_millis = RETRY_BACKOFF_MILLIS]
    /\ UNCHANGED <<core_vars, beside_fetch>>

\* one iteration of the loop
get_beacon_header_attempt(outcome) ==
    /\ fetch.pc = "loop"
    /\ LET tried == [fetch EXCEPT !.attempts = @ + 1]
       IN fetch' =
             IF outcome = "timeout"
                THEN [tried EXCEPT !.pc = "done", !.result = "Timeout"]
             ELSE IF outcome = "header"
                THEN [tried EXCEPT !.pc = "done", !.result = "Ok"]
             ELSE IF fetch.retries_remaining = 0
                THEN [tried EXCEPT !.pc = "done", !.result = "MaxRetriesExceeded"]
             ELSE [tried EXCEPT !.retries_remaining = @ - 1,
                                !.slept = Append(@, fetch.backoff_millis),
                                !.backoff_millis = @ * 2]
    /\ UNCHANGED <<core_vars, beside_fetch>>

\* ---- scored cache ----
GET_SCORE == 4
INSERT_SCORE == 4
UPDATE_SCORE == 0 - 1

\* ScoreCache::with_max_len(max_len); the scores the model lets an entry reach
max_len == 2
MaxScore == 9
MinScore == 0 - 1
Keys == {"k1", "k2", "k3", "k4"}

Absent == [held |-> FALSE, score |-> 0]
Entry(score) == [held |-> TRUE, score |-> score]

len(m) == Cardinality({k \in Keys : m[k].held})

MapInit == map = [k \in Keys |-> Absent]

\* HashMap::retain(|_, (_, score)| *score > i)
retain(m, i) == [k \in Keys |-> IF m[k].held /\ m[k].score > i THEN m[k] ELSE Absent]

\* one round of retain, whatever it leaves
clear_stales_one_round(m, i) == retain(m, i)

\* clear_stales from round i on: while len >= max_len, retain and raise i
Entries == {Absent} \cup {Entry(score) : score \in MinScore..MaxScore}
clear_stales_loop[a \in [Keys -> Entries] \X (0..(MaxScore + 1))] ==
    IF len(a[1]) >= max_len THEN clear_stales_loop[<<retain(a[1], a[2]), a[2] + 1>>] ELSE a[1]

clear_stales(m, i) == clear_stales_loop[<<m, i>>]

\* ScoreCache::get: a held key gains GET_SCORE
cache_get(k) ==
    /\ map[k].held => map[k].score + GET_SCORE <= MaxScore
    /\ map' = IF map[k].held THEN [map EXCEPT ![k].score = @ + GET_SCORE] ELSE map
    /\ UNCHANGED <<core_vars, beside_map>>

\* ScoreCache::get_mut: a held key gains UPDATE_SCORE
cache_get_mut(k) ==
    /\ map[k].held => map[k].score + UPDATE_SCORE >= MinScore
    /\ map' = IF map[k].held THEN [map EXCEPT ![k].score = @ + UPDATE_SCORE] ELSE map
    /\ UNCHANGED <<core_vars, beside_map>>

\* ScoreCache::insert: clear_stales, then the key is held with INSERT_SCORE
cache_insert(k) ==
    /\ map' = [clear_stales(map, 0) EXCEPT ![k] = Entry(INSERT_SCORE)]
    /\ UNCHANGED <<core_vars, beside_map>>

\* ---- send_timed_get_header ----
\* RelayConfig.frequency_get_header_ms (None: not set), the timeout left
\* when the relay is asked, and the wait for target_first_request_ms, in ms
Frequencies == {None, 0, 1, 2}
MaxTimeoutLeft == 4
Delays == {0, 1}

\* the handles the model records; a loop that spawns more keeps spawning
MaxHandles == 6

\* what send_one_get_header returns: Ok with a header, Ok(None) on 204, a timeout, another error
OneHeaderResults == {"header", "none", "timeout", "err"}

TgIdle ==
    [pc |-> "idle", send_freq_ms |-> None, timeout_left_ms |-> 0, handles |-> <<>>,
     result |-> "none", from |-> 0]

TgInit == tg = TgIdle

\* send_timed_get_header of a relay with timing games enabled, up to the
\* first request: the wait for the target time is taken from the timeout
send_timed_get_header(delay, send_freq_ms, timeout_left_ms) ==
    /\ tg.pc # "loop" /\ tg.pc # "join"
    /\ tg' = [TgIdle EXCEPT !.pc = "loop", !.send_freq_ms = send_freq_ms,
                            !.timeout_left_ms = saturating_sub(timeout_left_ms, delay)]
    /\ UNCHANGED <<core_vars, beside_tg>>

\* one iteration of the loop: a send_one_get_header is spawned with the
\* timeout that is left; one more follows after send_freq_ms when the
\* timeout left is above it. Without a frequency one request is sent.
spawn_send_one_get_header ==
    /\ tg.pc = "loop"
    /\ LET spawned == IF Len(tg.handles) < MaxHandles
                         THEN [tg EXCEPT !.handles = Append(@, tg.timeout_left_ms)]
                         ELSE tg
       IN tg' = IF tg.send_freq_ms # None /\ tg.timeout_left_ms > tg.send_freq_ms
                   THEN [spawned EXCEPT !.timeout_left_ms =
                                            saturating_sub(@, tg.send_freq_ms)]
                   ELSE [spawned EXCEPT !.pc = "join"]
    /\ UNCHANGED <<core_vars, beside_tg>>

\* the latest request that returned Ok, if any: max_by_key over start times,
\* which rise with the order of spawning
LatestOk(results) ==
    LET ok == {i \in DOMAIN results : results[i] \in {"header", "none"}}
    IN IF ok = {} THEN 0 ELSE CHOOSE i \in ok : \A j \in ok : j <= i

\* join_all and the choice among the results; a single request is returned as it is
join_all(results) ==
    /\ tg.pc = "join"
    /\ LET latest == IF tg.send_freq_ms = None THEN 1 ELSE LatestOk(results)
       IN tg' = [tg EXCEPT !.pc = "done",
                           !.from = latest,
                           !.result = IF latest = 0 THEN "no headers received"
                                      ELSE results[latest]]
    /\ UNCHANGED <<core_vars, beside_tg>>

\* ---- event loop of main and the mutexes ----
\* how many handlers the loop spawns, how many payload requests arrive
MaxHandlers == 2
MaxPayloadRequests == 1

\* the task of main; the spawned handlers are 1, 2, ...
MainTask == 0

\* after construction: main is about to lock constraint_state for its first
\* iteration, the deadline is armed, nothing has arrived
RtInit ==
    rt = [pc |-> "lock", constraint_state |-> None, commit_boost_api |-> None,
          fallback_builder |-> None, waiters |-> <<>>, handlers |-> <<>>,
          channel |-> 0, heads |-> 0, payload_rx |-> 0, payloads |-> 0, sleep |-> "armed"]

\* events that have arrived or been handed to a handler
Arrived(r) == Len(r.handlers) + r.channel + r.heads

\* a MutexGuard of constraint_state is dropped: the mutex goes to the task
\* that has waited longest, which resumes after its lock().await
unlock(r) ==
    IF r.waiters = <<>> THEN [r EXCEPT !.constraint_state = None]
    ELSE LET w == Head(r.waiters)
         IN [r EXCEPT !.constraint_state = w,
                      !.waiters = Tail(@),
                      !.pc = IF w = MainTask THEN "select" ELSE @,
                      !.handlers = IF w = MainTask THEN @ ELSE [@ EXCEPT ![w].pc = "locked"]]

\* tokio::spawn(handle_...(...)): the handler exists, it has not run yet
spawn(r, kind) == [r EXCEPT !.handlers = Append(@, [kind |-> kind, pc |-> "spawned"])]

\* the end of an iteration of the loop: the guard of main is dropped
end_iteration(r) == unlock([r EXCEPT !.pc = "lock"])

\* CommitmentRequestHandler::handle_commitment_request: try_send puts the request in the channel
event_sender_try_send ==
    /\ Arrived(rt) < MaxHandlers
    /\ rt' = [rt EXCEPT !.channel = @ + 1]
    /\ UNCHANGED <<core_vars, beside_rt>>

\* the beacon node announces a head
head_event ==
    /\ Arrived(rt) < MaxHandlers
    /\ rt' = [rt EXCEPT !.heads = @ + 1]
    /\ UNCHANGED <<core_vars, beside_rt>>

\* the sidecar proxy asks for the local payload
fetch_payload_request ==
    /\ rt.payloads + rt.payload_rx < MaxPayloadRequests
    /\ rt' = [rt EXCEPT !.payload_rx = @ + 1]
    /\ UNCHANGED <<core_vars, beside_rt>>

\* the sleep of the commitment deadline runs down
sleep_elapses ==
    /\ rt.sleep = "armed"
    /\ rt' = [rt EXCEPT !.sleep = "elapsed"]
    /\ UNCHANGED <<core_vars, beside_rt>>

\* top of the loop: constraint_state.lock().await
main_lock ==
    /\ rt.pc = "lock"
    /\ rt' = IF rt.constraint_state = None
                THEN [rt EXCEPT !.constraint_state = MainTask, !.pc = "select"]
                ELSE [rt EXCEPT !.waiters = Append(@, MainTask), !.pc = "wait"]
    /\ UNCHANGED <<core_vars, beside_rt>>

\* select!, request arm
select_recv ==
    /\ rt.pc = "select"
    /\ rt.channel > 0
    /\ rt' = end_iteration(spawn([rt EXCEPT !.channel = @ - 1], "request"))
    /\ UNCHANGED <<core_vars, beside_rt>>

\* select!, deadline arm
select_deadline ==
    /\ rt.pc = "select"
    /\ rt.sleep = "elapsed"
    /\ Len(rt.handlers) < MaxHandlers + 1
    /\ rt' = end_iteration(spawn([rt EXCEPT !.sleep = "none"], "deadline"))
    /\ UNCHANGED <<core_vars, beside_rt>>

\* select!, payload arm: handle_local_payload_request runs inside the loop
select_payload ==
    /\ rt.pc = "select"
    /\ rt.payload_rx > 0
    /\ rt.fallback_builder = None
    /\ rt' = end_iteration([rt EXCEPT !.payload_rx = @ - 1, !.payloads = @ + 1])
    /\ UNCHANGED <<core_vars, beside_rt>>

\* select!, head arm
select_head ==
    /\ rt.pc = "select"
    /\ rt.heads > 0
    /\ rt' = end_iteration(spawn([rt EXCEPT !.heads = @ - 1], "head"))
    /\ UNCHANGED <<core_vars, beside_rt>>

\* first statement of every spawned handler: constraint_state.lock().await
handler_lock(h) ==
    /\ h \in DOMAIN rt.handlers
    /\ rt.handlers[h].pc = "spawned"
    /\ rt' = IF rt.constraint_state = None
                THEN [rt EXCEPT !.constraint_state = h, !.handlers[h].pc = "locked"]
                ELSE [rt EXCEPT !.waiters = Append(@, h), !.handlers[h].pc = "queued"]
    /\ UNCHANGED <<core_vars, beside_rt>>

\* handle_preconfirmation_request from its lock to its return: the client is
\* answered (or the sender of the answer is dropped), the guard is dropped
handle_preconfirmation_request_return(h) ==
    /\ h \in DOMAIN rt.handlers
    /\ rt.handlers[h] = [kind |-> "request", pc |-> "locked"]
    /\ rt' = unlock([rt EXCEPT !.handlers[h].pc = "done"])
    /\ UNCHANGED <<core_vars, beside_rt>>

\* handle_head_event from its lock to its return: update_head arms the deadline
handle_head_event_return(h) ==
    /\ h \in DOMAIN rt.handlers
    /\ rt.handlers[h] = [kind |-> "head", pc |-> "locked"]
    /\ rt' = unlock([rt EXCEPT !.handlers[h].pc = "done", !.sleep = "armed"])
    /\ UNCHANGED <<core_vars, beside_rt>>

\* handle_commitment_deadline: commit_boost_api.lock().await
handle_commitment_deadline_lock_api(h) ==
    /\ h \in DOMAIN rt.handlers
    /\ rt.handlers[h] = [kind |-> "deadline", pc |-> "locked"]
    /\ rt.commit_boost_api = None
    /\ rt' = [rt EXCEPT !.commit_boost_api = h, !.handlers[h].pc = "api"]
    /\ UNCHANGED <<core_vars, beside_rt>>

\* handle_commitment_deadline: fallback_builder.lock().await
handle_commitment_deadline_lock_builder(h) ==
    /\ h \in DOMAIN rt.handlers
    /\ rt.handlers[h] = [kind |-> "deadline", pc |-> "api"]
    /\ rt.fallback_builder = None
    /\ rt' = [rt EXCEPT !.fallback_builder = h, !.handlers[h].pc = "builder"]
    /\ UNCHANGED <<core_vars, beside_rt>>

\* handle_commitment_deadline from its third lock to its return: the three
\* guards are dropped
handle_commitment_deadline_return(h) ==
    /\ h \in DOMAIN rt.handlers
    /\ rt.handlers[h] = [kind |-> "deadline", pc |-> "builder"]
    /\ rt' = unlock([rt EXCEPT !.handlers[h].pc = "done", !.commit_boost_api = None,
                               !.fallback_builder = None])
    /\ UNCHANGED <<core_vars, beside_rt>>

\* ---- specifications ----
Init == PbsInit /\ GwInit /\ ScInit /\ RpcInit /\ BuilderInit /\ FetchInit /\ MapInit /\ TgInit /\ RtInit /\ payload_and_bid = NoneOpt

SpecStore == Init /\ [][StoreNext]_vars

SpecHeader == Init /\ [][HeaderNext]_vars

SpecBids == Init /\ [][BidsNext]_vars

SpecFill == Init /\ [][FillNext]_vars

\* the gateway under head events, time and deadlines, with plain requests
HeadSlots == {61, 62, 63}
PlainRequests ==
    {[slot |-> s, sender |-> "a1", nonce |-> 0, n |-> 1, gas |-> 21000, max_fee |-> 1000,
      chain_ok |-> c, content_ok |-> TRUE] : s \in {62, 63, 64}, c \in BOOLEAN}

GatewayNext ==
    \/ Tick
    \/ \E s \in HeadSlots : next_head(s, 7)
    \/ deadline_wait
    \/ \E t \in tasks : handle_commitment_deadline(t)
    \/ \E t \in tasks, h \in BOOLEAN, d \in BOOLEAN : handle_head_event(t, h, d, TRUE)
    \/ \E r \in PlainRequests : handle_preconfirmation_request(r, 1, 1)

SpecGateway == Init /\ [][GatewayNext]_vars

\* the gateway with spawned request handlers: requests of two clients for one
\* slot, received in one order and handled when their handler gets the lock
OrderRequests ==
    {[slot |-> s, sender |-> a, nonce |-> ChainAccount(a).transaction_count, n |-> 1,
      gas |-> 21000, max_fee |-> 1000, chain_ok |-> TRUE, content_ok |-> TRUE] :
        s \in {62, 63}, a \in Senders}

OrderNext ==
    \/ Tick
    \/ \E s \in {61, 62} : next_head(s, 7)
    \/ deadline_wait
    \/ \E t \in tasks : handle_commitment_deadline(t)
    \/ \E t \in tasks, h \in BOOLEAN : handle_head_event(t, h, TRUE, TRUE)
    \/ \E r \in OrderRequests : recv_request(r)
    \/ \E i \in DOMAIN requests : handle_preconfirmation_request_validate(i)
    \/ handle_preconfirmation_request_insert(1, 1)

SpecOrder == Init /\ [][OrderNext]_vars

\* the gateway's limits: one head, requests of every shape, several delegations
DelegationCounts == {0, 1, 2}
LimitRequests ==
    {[slot |-> 62, sender |-> "a1", nonce |-> ChainAccount("a1").transaction_count + d, n |-> n,
      gas |-> g, max_fee |-> 1000, chain_ok |-> TRUE, content_ok |-> TRUE] :
        d \in {0, 1}, n \in {1, 127}, g \in {21000, 6000000}}
    \cup
    {[slot |-> s, sender |-> "a2", nonce |-> ChainAccount("a2").transaction_count, n |-> 1,
      gas |-> 21000, max_fee |-> 1000, chain_ok |-> TRUE, content_ok |-> TRUE] : s \in {62, 63}}

LimitsNext ==
    \/ Tick
    \/ next_head(61, 7)
    \/ deadline_wait
    \/ \E t \in tasks : handle_commitment_deadline(t)
    \/ \E t \in tasks, h \in BOOLEAN : handle_head_event(t, h, TRUE, TRUE)
    \/ \E r \in LimitRequests, k \in DelegationCounts :
          \E signed \in 0..k : handle_preconfirmation_request(r, k, signed)

SpecLimits == Init /\ [][LimitsNext]_vars

\* the basefee projection: heads with several basefees, requests several slots ahead
BaseFees == {7, 2000, U128_MAX \div 1125 - 100000}
FeeCaps == {15, 16, 3608, 6505, 6506, 961242}
FeeRequests ==
    {[slot |-> s, sender |-> "a1", nonce |-> 0, n |-> 1, gas |-> 21000, max_fee |-> f,
      chain_ok |-> TRUE, content_ok |-> TRUE] : s \in {51, 55, 60}, f \in FeeCaps}

BasefeeNext ==
    \/ Tick
    \/ \E b \in BaseFees : next_head(50, b)
    \/ deadline_wait
    \/ \E t \in tasks : handle_commitment_deadline(t)
    \/ \E t \in tasks, h \in BOOLEAN, u \in BOOLEAN : handle_head_event(t, h, TRUE, u)
    \/ \E r \in FeeRequests : handle_preconfirmation_request(r, 1, 1)

SpecBasefee == Init /\ [][BasefeeNext]_vars

\* the sidecar proxy under header and payload requests
ProxyNext ==
    \/ \E authorized \in BOOLEAN, slot \in ProxySlots, relayed \in ProxierResults :
          \E fetched \in FetchResults(slot) : get_header(authorized, slot, relayed, fetched)
    \/ \E authorized \in BOOLEAN, parsed \in BOOLEAN, block \in SignedBlindedBlocks,
          forwarded \in {"payload", "err"} : get_payload(authorized, parsed, block, forwarded)

SpecProxy == Init /\ [][ProxyNext]_vars

\* the RPC server filling the channel while the event loop takes from it
RpcNext ==
    \/ \E req \in RpcRequests : handle_commitment_request(req)
    \/ receiver_recv

SpecRpc == Init /\ [][RpcNext]_vars

\* the relay proxy with every fan-out
SpecFanout == Init /\ [][FanoutNext]_vars

\* requests that fail the first checks, at the RPC server and at the gateway,
\* among requests that pass them
RejectRequests ==
    {[slot |-> s, sender |-> "a1", nonce |-> 0, n |-> 1, gas |-> 21000, max_fee |-> 1000,
      chain_ok |-> c, content_ok |-> TRUE] : s \in {10, 62, 63, 64}, c \in BOOLEAN}

RejectedRpcRequests == {req \in RpcRequests : req.signature # "sender" \/ ~req.txs_valid}

RejectNext ==
    \/ next_head(61, 7)
    \/ \E t \in tasks : handle_head_event(t, TRUE, TRUE, TRUE)
    \/ \E r \in RejectRequests : handle_preconfirmation_request(r, 1, 1)
    \/ \E req \in RejectedRpcRequests : handle_commitment_request(req)

SpecReject == Init /\ [][RejectNext]_vars

\* the fallback builder against an engine that answers anything
BuilderNext ==
    \/ build_sealed_block
    \/ \E engine_hint \in EngineApiHints, value \in HintValues :
          build_sealed_block_loop(engine_hint, value)

SpecBuilder == Init /\ [][BuilderNext]_vars

\* head events whose handler fetches the beacon header with retries: the
\* handler holds the state lock while it fetches, and goes on with what the
\* fetch came to
RetryNext ==
    \/ \E s \in HeadSlots : fetch.pc # "loop" /\ next_head(s, 7)
    \/ \E t \in tasks : get_beacon_header_with_retry(t)
    \/ \E outcome \in FetchOutcomes : get_beacon_header_attempt(outcome)
    \/ \E t \in tasks, d \in BOOLEAN :
          /\ fetch.pc = "done" /\ fetch.head = t.slot
          /\ handle_head_event(t, fetch.result = "Ok", d, TRUE)

SpecRetry == Init /\ [][RetryNext]_vars

\* the scored cache under any sequence of its operations
CacheNext ==
    \/ \E k \in Keys : cache_get(k)
    \/ \E k \in Keys : cache_get_mut(k)
    \/ \E k \in Keys : cache_insert(k)

SpecCache == Init /\ [][CacheNext]_vars

\* the gateway across a head whose block holds a transaction of a committed sender
TemplateHeads == {64, SpendHead}
TemplateRequests ==
    {[slot |-> 72, sender |-> "a1", nonce |-> nonce, n |-> 1, gas |-> 21000, max_fee |-> 1000,
      chain_ok |-> TRUE, content_ok |-> TRUE] : nonce \in {0, 1}}

TemplateNext ==
    \/ Tick
    \/ \E s \in TemplateHeads : next_head(s, 7)
    \/ deadline_wait
    \/ \E t \in tasks : handle_commitment_deadline(t)
    \/ \E t \in tasks : handle_head_event(t, TRUE, TRUE, TRUE)
    \/ \E r \in TemplateRequests : handle_preconfirmation_request(r, 1, 1)

SpecTemplate == Init /\ [][TemplateNext]_vars

\* one relay asked for a header under timing games
TimingNext ==
    \/ \E delay \in Delays, send_freq_ms \in Frequencies, timeout_left_ms \in 1..MaxTimeoutLeft :
          send_timed_get_header(delay, send_freq_ms, timeout_left_ms)
    \/ spawn_send_one_get_header
    \/ \E results \in [1..Len(tg.handles) -> OneHeaderResults] : join_all(results)

\* the loop runs on its own task: it takes its next step whenever it has one
SpecTiming == Init /\ [][TimingNext]_vars /\ WF_vars(spawn_send_one_get_header)

\* the event loop and its handlers; the runtime runs every task that can
\* run and the sleep runs down, while requests, heads and payload requests
\* arrive when they arrive
HandlerIds == 1..(MaxHandlers + 1)

LoopNext ==
    \/ event_sender_try_send
    \/ head_event
    \/ fetch_payload_request
    \/ sleep_elapses
    \/ main_lock
    \/ select_recv
    \/ select_deadline
    \/ select_payload
    \/ select_head
    \/ \E h \in HandlerIds : handler_lock(h)
    \/ \E h \in HandlerIds : handle_preconfirmation_request_return(h)
    \/ \E h \in HandlerIds : handle_head_event_return(h)
    \/ \E h \in HandlerIds : handle_commitment_deadline_lock_api(h)
    \/ \E h \in HandlerIds : handle_commitment_deadline_lock_builder(h)
    \/ \E h \in HandlerIds : handle_commitment_deadline_return(h)

SpecLoop ==
    /\ Init
    /\ [][LoopNext]_vars
    /\ WF_vars(sleep_elapses)
    /\ WF_vars(main_lock)
    /\ WF_vars(select_recv)
    /\ WF_vars(select_deadline)
    /\ WF_vars(select_payload)
    /\ WF_vars(select_head)
    /\ \A h \in HandlerIds :
          /\ WF_vars(handler_lock(h))
          /\ WF_vars(handle_preconfirmation_request_return(h))
          /\ WF_vars(handle_head_event_return(h))
          /\ WF_vars(handle_commitment_deadline_lock_api(h))
          /\ WF_vars(handle_commitment_deadline_lock_builder(h))
          /\ WF_vars(handle_commitment_deadline_return(h))

\* the gateway answering payload requests of the sidecar proxy
PayloadRequests ==
    {[slot |-> s, sender |-> "a1", nonce |-> 0, n |-> 1, gas |-> 21000, max_fee |-> 1000,
      chain_ok |-> TRUE, content_ok |-> TRUE] : s \in {62, 63}}

PayloadNext ==
    \/ Tick
    \/ \E s \in {61, 62} : next_head(s, 7)
    \/ deadline_wait
    \/ \E t \in tasks : handle_commitment_deadline(t)
    \/ \E t \in tasks : handle_head_event(t, TRUE, TRUE, TRUE)
    \/ \E r \in PayloadRequests : handle_preconfirmation_request(r, 1, 1)
    \/ \E slot \in {62, 63} : handle_local_payload_request(slot)

SpecPayload == Init /\ [][PayloadNext]_vars

\* ---- properties of the gateway ----
\* C2: when the commitment deadline resolves with slot S, the handler takes
\* the template of that same slot S, forwards it, and pre-builds for S.
C2_DeadlineTakesResolvedSlot ==
    gw_out.op = "deadline" => gw_out.slot = gw_out.resolved

\* C7: after update_head(S) has run, no block template is held for any
\* slot S' <= S.
C7_NoTemplateUpToHead ==
    (gw_out.op = "head" /\ gw_out.result = "ok") =>
        \A s \in BlockSlots : s <= gw_out.slot => blocks[s] = <<>>

\* C8 as stated: a request for slot H + 1 (H the head) that carries the
\* right chain id is rejected with DeadlineExpired when it is validated
\* after deadline_duration has elapsed since the head advanced to H, and is
\* not rejected so when validated before.
C8_ExpiredIsDeadlineExpired ==
    (/\ gw_out.op = "request"
     /\ gw_out.req.chain_ok
     /\ gw_out.slot = latest_slot + 1) =>
        (gw_out.result = "DeadlineExpired" <=> elapsed > DeadlineDuration)

InCurrentEpoch(slot) ==
    /\ slot >= current_epoch.start_slot
    /\ slot < current_epoch.start_slot + SLOTS_PER_EPOCH

\* C8, amended: the same, for a slot H + 1 that lies in the current epoch;
\* when H is the last slot of its epoch the request is rejected with
\* InvalidSlot whatever the time.
C8_ExpiredInEpochIsDeadlineExpired ==
    (/\ gw_out.op = "request"
     /\ gw_out.req.chain_ok
     /\ gw_out.slot = latest_slot + 1) =>
        /\ InCurrentEpoch(gw_out.slot) =>
              (gw_out.result = "DeadlineExpired" <=> elapsed > DeadlineDuration)
        /\ ~InCurrentEpoch(gw_out.slot) => gw_out.result = "InvalidSlot"

C8_Witness ==
    /\ gw_out.op = "request"
    /\ gw_out.slot = latest_slot + 1
    /\ latest_slot > 0
    /\ elapsed > DeadlineDuration
    /\ gw_out.result = "DeadlineExpired"

RunTxs(run) == {[nonce |-> run.nonce + j, gas |-> run.gas] : j \in 0..(run.n - 1)}

CommittedTxs(a) ==
    UNION {UNION {IF blocks[s][i].sender = a THEN RunTxs(blocks[s][i]) ELSE {} :
                      i \in 1..Len(blocks[s])} : s \in BlockSlots}

\* C3: for every sender, the committed transactions carry contiguous nonces
\* starting from the sender's on-chain nonce, no nonce is committed twice,
\* and the nonce diff accounted for the sender equals the number of its
\* commitments.
C3_ContiguousNonces ==
    \A a \in Senders :
        LET txs == CommittedTxs(a)
            nonces == {t.nonce : t \in txs}
            first == ChainAccount(a).transaction_count
        IN /\ Cardinality(nonces) = Cardinality(txs)
           /\ nonces = first..(first + Cardinality(nonces) - 1)
           /\ compute_diffs(a).nonce_diff = Cardinality(txs)

\* C3, its first half alone: no two different transactions of one sender
\* are committed with the same nonce.
C3_NoNonceTwice ==
    \A a \in Senders : Cardinality({t.nonce : t \in CommittedTxs(a)}) = Cardinality(CommittedTxs(a))

\* C4: the total gas limit in the block template of a slot never exceeds
\* max_commitment_gas, each accepted request keeping committed gas plus its
\* own gas within it.
C4_TemplateGasWithinCap ==
    \A s \in BlockSlots : committed_gas(blocks[s]) <= max_commitment_gas

\* C5: the number of signed constraints in the block template of a slot is
\* at most max_commitments_in_block.
C5_TemplateCountWithinCap ==
    \A s \in BlockSlots : transactions_count(blocks[s]) <= max_commitments_in_block

\* the projection as specified: one step is fee * 1125 / 1000 + 1
RECURSIVE C10_Projection(_, _)
C10_Projection(fee, k) ==
    IF k = 0 THEN fee ELSE (C10_Projection(fee, k - 1) * 1125) \div 1000 + 1

\* C10: for a request that reaches the basefee check, the projected basefee
\* is the current basefee stepped slot_diff = S - slot times; the request is
\* rejected with BaseFeeTooLow exactly when its fee cap is below the
\* projection, so every accepted request is at or above it.
C10_BasefeeProjection ==
    (/\ gw_out.op = "request"
     /\ gw_out.result \in {"accepted", "no_reply", "ElValidationFailed"}
     /\ gw_out.el \notin {"ChainIdMismatch", "MaxCommittedGasReachedForSlot",
                          "TransactionSizeTooHigh", "GasLimitTooHigh", "MaxBaseFeeCalcOverflow"}) =>
        (gw_out.el = "BaseFeeTooLow" <=>
            gw_out.req.max_fee <
                C10_Projection(execution.basefee, saturating_sub(gw_out.slot, execution.slot)))

C10_Witness ==
    /\ gw_out.op = "request"
    /\ gw_out.el = "BaseFeeTooLow"
    /\ execution.basefee = 2000
    /\ gw_out.slot - execution.slot = 10
    /\ gw_out.req.max_fee = 6505

\* ---- properties of the sidecar proxy server ----
\* C11: when get_header_with_proofs yields no valid proofed bid (a relay
\* error or a proof failure) or times out, get_header asks the local builder
\* for a payload and bid, caches both and answers the local bid.
C11_FallbackOnErrorOrTimeout ==
    (sc_out.op = "get_header" /\ sc_out.relayed \in {"err", "elapsed"}) =>
        /\ sc_out.fetched
        /\ sc_out.result = "local_bid"
        /\ fallback_bid.some /\ sc_out.body = fallback_bid
        /\ fallback_payload.some
        /\ fallback_payload.v["block_hash"] = fallback_bid.v.block_hash

\* C12: get_payload with a fallback payload cached answers FieldMismatch when
\* the signed header differs from the local payload in any field and the local
\* payload when it matches, without asking the relay; with none cached the
\* request is forwarded to the relay.
C12_CachedPayloadServedLocally ==
    (sc_out.op = "get_payload" /\ sc_out.block.some) =>
        IF sc_out.cached
        THEN /\ sc_out.relayed = "none"
             /\ sc_out.block.v # fallback_payload.v => sc_out.result = "FieldMismatch"
             /\ sc_out.block.v = fallback_payload.v =>
                    sc_out.result = "local_payload" /\ sc_out.body = fallback_payload
        ELSE sc_out.relayed \in {"payload", "err"}

C12_Witness ==
    /\ sc_out.op = "get_payload"
    /\ sc_out.cached
    /\ sc_out.result = "FieldMismatch"
    /\ sc_out.field = "excess_blob_gas"
    /\ sc_out.relayed = "none"

\* C13: once get_payload has answered the cached fallback payload, the cached
\* payload and bid are gone, so a later get_payload is forwarded to the relay.
C13_ClearedOnConsumption ==
    (sc_out.op = "get_payload" /\ sc_out.result = "local_payload") =>
        ~fallback_payload.some /\ ~fallback_bid.some

\* ---- properties of get_header_with_proofs ----
\* the bids that passed: a relay's header that arrived and validated and,
\* when the slot has constraints, whose multiproof verifies
PassedBids ==
    {pbs_out.results[r] : r \in
        {q \in Relays : /\ pbs_out.results[q].kind = "bid"
                        /\ (pbs_out.taken # <<>> =>
                               validate_multiproofs(pbs_out.taken, pbs_out.results[q]))}}

\* C14: get_header_with_proofs answers the header of highest value among the
\* bids that passed header validation and, where the slot has constraints,
\* proof verification; when no bid passed it answers 204.
C14_HighestPassedBid ==
    pbs_out.op = "get_header" =>
        IF PassedBids = {}
        THEN pbs_out.status = 204
        ELSE /\ pbs_out.status = 200
             /\ pbs_out.header \in PassedBids
             /\ \A b \in PassedBids : b.value <= pbs_out.header.value

C14_Witness ==
    /\ pbs_out.op = "get_header"
    /\ pbs_out.status = 200
    /\ pbs_out.taken # <<>>
    /\ pbs_out.header.value = 1
    /\ \E r \in Relays : /\ pbs_out.results[r].kind = "bid"
                         /\ pbs_out.results[r].value = MaxBidValue
                         /\ pbs_out.results[r] \notin PassedBids

\* C15: a transport timeout at a relay never becomes a 5xx: the answer is
\* 200 or 204, it is 204 when every relay timed out, and a bid that passed at
\* one relay is still answered when another relay timed out.
C15_TimeoutsAnswer204 ==
    (pbs_out.op = "get_header"
        /\ \E r \in Relays : pbs_out.results[r].kind = "timeout") =>
        /\ pbs_out.status \in {200, 204}
        /\ (\A r \in Relays : pbs_out.results[r].kind = "timeout") => pbs_out.status = 204
        /\ PassedBids # {} => pbs_out.status = 200

C15_Witness ==
    /\ pbs_out.op = "get_header"
    /\ pbs_out.results["r1"].kind = "timeout"
    /\ pbs_out.results["r2"].kind = "bid"
    /\ pbs_out.status = 200

\* ---- properties of the gateway's event loop ----
\* C16: the commitment deadline fires at most once per arming: after wait
\* resolved with its slot every later wait resolves to None, until a head
\* update arms it again; every head update arms it for the slot after its head.
C16_DeadlineFiresOncePerArming ==
    /\ commitment_deadline.fired <= 1
    /\ commitment_deadline.fired = 1 =>
          /\ poll(commitment_deadline).ready
          /\ wait(commitment_deadline).slot = None
    /\ gw_out.op = "head" =>
          commitment_deadline = [slot |-> gw_out.slot + 1, remaining |-> DeadlineDuration,
                                 armed |-> TRUE, fired |-> 0]

C16_Witness ==
    /\ commitment_deadline.fired = 1
    /\ commitment_deadline.slot = 62
    /\ latest_slot = 61

\* the place in the arrival order of the request of a sender
ArrivalIndex(sender) == CHOOSE i \in DOMAIN requests : requests[i].req.sender = sender

\* C17: within a slot the constraints of the template are in the arrival
\* order of the requests they came from: the constraints of a request the
\* event loop received earlier come first.
C17_TemplateInArrivalOrder ==
    \A s \in BlockSlots : \A i \in DOMAIN blocks[s], j \in DOMAIN blocks[s] :
        i < j => ArrivalIndex(blocks[s][i].sender) <= ArrivalIndex(blocks[s][j].sender)

\* C18: the request handler that has validated and not yet inserted sees
\* the state it validated under: latest_slot, the current epoch with its
\* proposer duties and the block templates are what they were when its
\* validation started, so no later head is observed before it finishes.
C18_NoHeadChangeDuringRequest ==
    active.kind = "request" =>
        /\ latest_slot = active.seen.latest_slot
        /\ current_epoch = active.seen.current_epoch
        /\ blocks = active.seen.blocks

C18_Witness ==
    /\ active.kind = "request"
    /\ \E t \in tasks : t.kind = "head" /\ t.slot > latest_slot /\ t.slot < active.req.slot
    /\ elapsed > 0

\* C19: head updates are applied in the order their head events were taken
\* from the head stream, one at a time: when the update for a head has run,
\* no update for an earlier head is still waiting to run.
C19_HeadUpdatesInStreamOrder ==
    gw_out.op = "head" =>
        \A t \in tasks : t.kind = "head" => t.slot > gw_out.slot

\* C20: every task of the gateway holds at most one mutex at a time: the
\* handler that just ran held no more than one.
C20_AtMostOneMutexHeld ==
    Cardinality(gw_out.held) <= 1

\* ---- properties of the relay proxy's constraints store ----
\* the raw transactions stored for a slot
StoredTxs(c, slot) == UNION {Range(c[slot][i].transactions) : i \in 1..Len(c[slot])}

C22_AtMost128PerSlot ==
    /\ \A s \in ConstraintSlots : Len(cache[s]) <= PER_SLOT_MAX_CONSTRAINTS
    /\ (pbs_out.op = "submit" /\ pbs_out.why = "LimitExceeded") =>
          \E s \in ConstraintSlots : Len(cache[s]) = PER_SLOT_MAX_CONSTRAINTS

C22_Witness ==
    /\ pbs_out.op = "submit"
    /\ pbs_out.why = "LimitExceeded"
    /\ pbs_out.by = "p2"
    /\ Len(cache[2]) = PER_SLOT_MAX_CONSTRAINTS

\* ---- properties of the commitment RPC server ----
\* C23: a request that finds the preconfirmation channel full is answered
\* with HTTP 503 and is not put on the channel.
C23_FullChannelAnswers503 ==
    (rpc_out.op = "request" /\ rpc_out.full) =>
        /\ rpc_out.status = 503
        /\ Len(channel) = CHANNEL_CAPACITY

\* C24: a request rejected for its request signature or a transaction
\* signature (at the RPC server), or for its chain id or its slot (by
\* validate_preconf_request), leaves the block templates, the execution state
\* and the channel as they were, and its error is what the client is answered.
C24_RejectedBeforeMutation ==
    [][/\ \A req \in RejectedRpcRequests :
             handle_commitment_request(req) =>
                 /\ channel' = channel /\ blocks' = blocks /\ execution' = execution
                 /\ rpc_out'.result = "Custom" /\ rpc_out'.status = 500
       /\ \A r \in RejectRequests :
             (/\ handle_preconfirmation_request(r, 1, 1)
              /\ validate_preconf_request(r) \in {"InvalidChainId", "InvalidSlot"}) =>
                 /\ channel' = channel /\ blocks' = blocks /\ execution' = execution
                 /\ gw_out'.result = validate_preconf_request(r)]_vars

C24_Witness ==
    /\ gw_out.op = "request" /\ gw_out.result = "InvalidSlot" /\ gw_out.slot = 64
    /\ rpc_out.op = "request" /\ rpc_out.why = "Invalid signature"
    /\ Len(blocks[62]) = 1

\* ---- properties of the fallback block builder ----
\* C25: one build calls engine_newPayloadV3 at most 20 times.
C25_AtMost20EngineCalls == builder.calls <= max_iterations

\* ---- properties of the beacon header fetch ----
\* C26: a beacon-header fetch that fails is retried, with the backoff
\* doubling from RETRY_BACKOFF_MILLIS, until MAX_RETRIES retries have failed:
\* update_head gives up only with the retries used up.
C26_FailedFetchRetried ==
    /\ \A k \in 1..Len(fetch.slept) : fetch.slept[k] = RETRY_BACKOFF_MILLIS * 2^(k - 1)
    /\ Len(fetch.slept) <= MAX_RETRIES
    /\ (fetch.pc = "done" /\ fetch.result # "Ok") => Len(fetch.slept) = MAX_RETRIES

Above(m, floor) == {k \in Keys : m[k].held /\ m[k].score > floor}
C28_CacheWithinCapacity ==
    [][/\ len(map') <= max_len
       /\ \A k \in Keys :
             /\ cache_insert(k) =>
                   /\ map'[k] = Entry(4)
                   /\ IF len(map) < max_len
                         THEN \A j \in Keys \ {k} : map'[j] = map[j]
                         ELSE \E floor \in 0..MaxScore :
                                 /\ Cardinality(Above(map, floor)) < max_len
                                 /\ floor > 0 => Cardinality(Above(map, floor - 1)) >= max_len
                                 /\ \A j \in Keys \ {k} :
                                       map'[j] = IF j \in Above(map, floor) THEN map[j] ELSE Absent
             /\ (cache_get(k) /\ map[k].held) => map'[k].score = map[k].score + 4
             /\ (cache_get_mut(k) /\ map[k].held) => map'[k].score = map[k].score - 1]_vars

C28_Witness ==
    /\ len(map) = max_len
    /\ map["k1"] = Entry(INSERT_SCORE)
    /\ map["k2"].held /\ map["k2"].score = 7
    /\ ~map["k3"].held /\ ~map["k4"].held

\* ---- properties of the templates across head updates ----
\* C29: after a head update was applied, every constraint that a template
\* still holds is of a sender whose account, as the update reports it, has
\* not gone past the constraint's nonce.
C29_InvalidatedConstraintsRemoved ==
    (gw_out.op = "head" /\ gw_out.result = "ok") =>
        \A s \in BlockSlots : \A i \in 1..Len(blocks[s]) :
            blocks[s][i].sender \in execution.account_states =>
                blocks[s][i].nonce >= ChainAccount(blocks[s][i].sender).transaction_count

\* ---- properties of the header choice ----
\* C30: the header that get_header_with_proofs returns is the header it
\* would return for the same bids of the same relays with the relays
\* configured in any other order.
C30_HeaderIndependentOfRelayOrder ==
    (pbs_out.op = "get_header" /\ pbs_out.status = 200) =>
        \A order \in RelayOrders :
            MaxByValue(RelayBidsOver(order, pbs_out.taken, pbs_out.results, 1)) = pbs_out.header

\* ---- properties of the timing games ----
\* C31: the loop of send_timed_get_header ends: a call that has begun to
\* spawn requests comes to join them.
C31_TimingLoopTerminates == (tg.pc = "loop") ~> (tg.pc = "join")

\* C32: the payload submitted to the engine after a hint for a field carries
\* the hinted value in that field.
C32_HintAppliedToNextPayload ==
    (builder.calls >= 2 /\ builder.hinted.field # "none") =>
        builder.payload[builder.hinted.field] = builder.hinted.value

\* C33: a signed constraint accepted for slot S leaves the template of S only
\* by being forwarded to the relays: whenever constraints go from the
\* template of a slot, the step is the commitment-deadline handler for that
\* slot and it sends all of them.
C33_AcceptedConstraintsForwarded ==
    [][\A s \in BlockSlots :
          Len(blocks'[s]) < Len(blocks[s]) =>
             /\ gw_out'.op = "deadline"
             /\ gw_out'.slot = s
             /\ gw_out'.result = "sent"
             /\ gw_out'.taken = blocks[s]]_vars

\* C34: a request that does not end in an ok:true response (it fails
\* validation, or a signature fails after some constraints were signed)
\* leaves every block template as it was before the request.
C34_FailedRequestLeavesTemplate ==
    [][(gw_out'.op = "request" /\ gw_out'.result # "accepted") => blocks' = blocks]_vars

\* C35: a submit_constraints call that returns an error (a constraint of the
\* batch is rejected, or no relay accepts the batch) has saved no constraint
\* of its batch in the local store.
C35_FailedSubmitStoresNothing ==
    [][\A p \in Submitters :
          (sub[p].pc # "idle" /\ sub'[p].pc = "idle" /\ pbs_out'.status # "OK") =>
             ~sub[p].stored]_vars

\* C36: after every update_head call, successful or failed, the armed
\* commitment deadline is for latest_slot + 1 and runs out deadline_duration
\* after latest_slot_timestamp.
C36_DeadlineFollowsLatestSlot ==
    gw_out.op = "head" =>
        /\ commitment_deadline.armed
        /\ commitment_deadline.slot = latest_slot + 1
        /\ commitment_deadline.remaining + elapsed = DeadlineDuration

\* C37: the state is not left marked as epoch E with the duties of another
\* epoch: after a head update in which no fetch of the duties failed, the
\* proposer duties held are those fetched for the recorded current epoch.
C37_DutiesOfCurrentEpoch ==
    (gw_out.op = "head" /\ gw_out.result = "ok" /\ gw_out.duties # "failed") =>
        current_epoch.duties = current_epoch.value

\* C38: every preconfirmation request that the event loop has taken from the
\* channel is answered in the end, with nothing more arriving: its handler
\* returns.
C38_TakenRequestAnswered ==
    \A h \in HandlerIds :
        (h \in DOMAIN rt.handlers /\ rt.handlers[h].kind = "request")
            ~> (h \in DOMAIN rt.handlers /\ rt.handlers[h].pc = "done")

\* the three mutexes alone do not deadlock: a handler that holds a mutex is
\* never kept from the next one it takes
NoMutexDeadlock ==
    \A h \in DOMAIN rt.handlers :
        /\ rt.handlers[h] = [kind |-> "deadline", pc |-> "locked"] => rt.commit_boost_api = None
        /\ rt.handlers[h] = [kind |-> "deadline", pc |-> "api"] => rt.fallback_builder = None

\* C39: the payload and bid answered to a payload request for slot S were
\* built for slot S.
C39_PayloadBuiltForRequestedSlot ==
    (gw_out.op = "payload" /\ gw_out.payload.some) => gw_out.payload.v.slot = gw_out.slot

====
